---- MODULE Spec2Model ----
(***************************************************************************)
(* State-machine model of the invoice extraction engine                    *)
(* (src/extract_invoices.py) and of the batch loop of the application      *)
(* (src/app.py).                                                           *)
(*                                                                         *)
(* Strings are modelled as sequences of one-character strings, so that    *)
(* parsing and formatting are computed character by character as the code *)
(* computes them.  Vietnamese text is written without diacritics: the     *)
(* module language has no non-ASCII strings.                               *)
(***************************************************************************)
EXTENDS Integers, Sequences, FiniteSets, TLC

VARIABLES
    mPc,        \* money helpers: "idle" | "parsed" | "formatted" | "reparsed"
    mTok,       \* the token handed to parse_money
    mParsed,    \* parse_money(mTok), module level
    mParsedIn,  \* parse_money(mTok), the one nested in extract_invoice_data
    mNum,       \* the integer handed to format_money
    mStr,       \* format_money(mNum), module level
    mStrIn,     \* format_money(mNum), the one nested in extract_invoice_data
    mBack,      \* parse_money(mStr), module level
    mBackIn,    \* parse_money(mStrIn), nested
    pc,         \* extract_invoice_data: "idle" | "returned"
    doc,        \* extract_invoice_data: the document handed in
    srcIsPath,  \* pdf_source is a file path (main) and not a stream (app)
    OCR_AVAILABLE, \* whether the OCR imports succeeded
    data,       \* extract_invoice_data: the record returned
    line_items, \* extract_invoice_data: the line items returned
    raised,     \* an exception reached the handler of extract_invoice_data
    via,        \* the return statement taken: "ocr" | "ocr_empty" | "sentinel" | "end"
    vPc,        \* validate_invoice_data: "idle" | "validated"
    vData,      \* the record handed to validate_invoice_data
    issues,     \* the issues validate_invoice_data returned
    loop,       \* the batch loop running: "app" (app.py) | "main" (main())
    category_select, \* app.py: "auto" | "fixed"
    report_type,     \* app.py: "business" | "accounting"
    files,      \* the batch: a sequence of [doc, seek_fails]
    idx,        \* the index of the next file of the batch
    all_rows,   \* the rows collected by the loop
    all_validations, \* app.py: the validation entries collected by the loop
    rPc, \* routing: the statement reached
    rSrc, \* routing: the document handed in
    rIsPath, \* routing: pdf_source is a file path
    rText, \* routing: full_text
    rOcrHasText, \* routing: ocr_text.strip() is not empty
    rInvBlank, \* routing: data["So hoa don"] is blank
    rMstBlank, \* routing: data["Ma so thue"] is blank
    rLog, \* routing: the requests made to the OCR provider, in order
    rOut, \* routing: the return statement taken
    sPc, \* items: the statement reached
    sSrc, \* items: the parts the line was written from
    sText, \* items: full_text
    sItems, \* items: the services returned
    iPc, \* batch: the place in the body of the loop
    gTables, \* the tables of the module, as the import left them
    tPc, \* tax code: the stage reached
    tMst, \* tax code: data["Ma so thue"]
    tBy, \* tax code: the stage that wrote the field last
    tSeen, \* tax code: what the patterns of the last stage captured
    kPc, \* patterns: the stage reached
    kDoc, \* patterns: the lines of full_text
    kData, \* patterns: the dictionary data
    kBy, \* patterns: the rule that wrote each field last
    kIdx, \* patterns: the index of the pattern a loop has reached
    aPc, \* item tax: the statement reached
    aEntry, \* item tax: data when the aggregation starts
    aData, \* item tax: the dictionary data
    aItems, \* item tax: line_items
    aIdx, \* item tax: the place in the loop over the rates
    wPc, \* amount in words: the statement reached
    wTokens, \* amount in words: tokens
    wPos, \* amount in words: the place of the loop in tokens
    wResult, \* amount in words: result
    wHundreds, \* amount in words: hundreds
    wPending, \* amount in words: pending
    nPc, \* item names: the statement reached
    nText, \* item names: full_text
    nLines, \* item names: lines
    nIdx, \* item names: the place of the loop in lines
    nItems, \* item names: services
    nUsed \* item names: for each item of services, the lines its name was written from

moneyVars == <<mPc, mTok, mParsed, mParsedIn, mNum, mStr, mStrIn, mBack, mBackIn>>

docVars == <<pc, doc, srcIsPath, OCR_AVAILABLE, data, line_items, raised, via>>

valVars == <<vPc, vData, issues>>

batchVars == <<loop, category_select, report_type, files, idx, all_rows, all_validations>>

routeVars == <<rPc, rSrc, rIsPath, rText, rOcrHasText, rInvBlank, rMstBlank, rLog, rOut>>

serviceVars == <<sPc, sSrc, sText, sItems>>

indepVars == <<iPc, gTables>>

mstVars == <<tPc, tMst, tBy, tSeen>>

cascVars == <<kPc, kDoc, kData, kBy, kIdx>>

aggrVars == <<aPc, aEntry, aData, aItems, aIdx>>

wordsVars == <<wPc, wTokens, wPos, wResult, wHundreds, wPending>>

mergeVars == <<nPc, nText, nLines, nIdx, nItems, nUsed>>

extVars == <<routeVars, serviceVars, indepVars, mstVars, cascVars, aggrVars, wordsVars, mergeVars>>

routeRest == <<serviceVars, indepVars, mstVars, cascVars, aggrVars, wordsVars, mergeVars>>

serviceRest == <<routeVars, indepVars, mstVars, cascVars, aggrVars, wordsVars, mergeVars>>

indepRest == <<routeVars, serviceVars, mstVars, cascVars, aggrVars, wordsVars, mergeVars>>

mstRest == <<routeVars, serviceVars, indepVars, cascVars, aggrVars, wordsVars, mergeVars>>

cascRest == <<routeVars, serviceVars, indepVars, mstVars, aggrVars, wordsVars, mergeVars>>

aggrRest == <<routeVars, serviceVars, indepVars, mstVars, cascVars, wordsVars, mergeVars>>

wordsRest == <<routeVars, serviceVars, indepVars, mstVars, cascVars, aggrVars, mergeVars>>

mergeRest == <<routeVars, serviceVars, indepVars, mstVars, cascVars, aggrVars, wordsVars>>

vars == <<moneyVars, docVars, valVars, batchVars, extVars>>

(***************************************************************************)
(* Bounds of the model.                                                    *)
(***************************************************************************)
MaxTokLen == 5
MaxNumDigits == 7

(***************************************************************************)
(* Characters and Python string primitives.                                *)
(***************************************************************************)
Digits == {"0", "1", "2", "3", "4", "5", "6", "7", "8", "9"}

DigitVal(c) ==
    CASE c = "0" -> 0 [] c = "1" -> 1 [] c = "2" -> 2 [] c = "3" -> 3
      [] c = "4" -> 4 [] c = "5" -> 5 [] c = "6" -> 6 [] c = "7" -> 7
      [] c = "8" -> 8 [] c = "9" -> 9

DigitChar(d) ==
    CASE d = 0 -> "0" [] d = 1 -> "1" [] d = 2 -> "2" [] d = 3 -> "3"
      [] d = 4 -> "4" [] d = 5 -> "5" [] d = 6 -> "6" [] d = 7 -> "7"
      [] d = 8 -> "8" [] d = 9 -> "9"

\* c in s
Contains(s, c) == \E i \in 1..Len(s) : s[i] = c

\* s.rfind(c), 1-based; 0 when c does not occur
RFind(s, c) ==
    IF Contains(s, c)
    THEN CHOOSE i \in 1..Len(s) : s[i] = c /\ \A j \in (i+1)..Len(s) : s[j] # c
    ELSE 0

\* s.strip(), for the blank character
RECURSIVE LStrip(_)
LStrip(s) == IF s # <<>> /\ Head(s) = " " THEN LStrip(Tail(s)) ELSE s

RECURSIVE RStrip(_)
RStrip(s) ==
    IF s # <<>> /\ s[Len(s)] = " " THEN RStrip(SubSeq(s, 1, Len(s) - 1)) ELSE s

Strip(s) == RStrip(LStrip(s))

\* s.replace(',', '').replace('.', '')
StripSeparators(s) == SelectSeq(s, LAMBDA c : c \notin {".", ","})

AllDigits(s) == \A i \in 1..Len(s) : s[i] \in Digits

RECURSIVE DigitsValue(_)
DigitsValue(s) ==
    IF s = <<>> THEN 0
    ELSE 10 * DigitsValue(SubSeq(s, 1, Len(s) - 1)) + DigitVal(s[Len(s)])

\* int(s): the literals int() accepts are an optional sign and a run of digits,
\* blanks around them ignored
IntValid(s) ==
    LET t == Strip(s)
        u == IF t # <<>> /\ Head(t) \in {"-", "+"} THEN Tail(t) ELSE t
    IN u # <<>> /\ AllDigits(u)

IntValue(s) ==
    LET t == Strip(s)
    IN IF Head(t) = "-" THEN 0 - DigitsValue(Tail(t))
       ELSE IF Head(t) = "+" THEN DigitsValue(Tail(t))
       ELSE DigitsValue(t)

\* re.search(r'[,.]\d{k}$', s)
EndsSepDigits(s, k) ==
    /\ Len(s) >= k + 1
    /\ s[Len(s) - k] \in {",", "."}
    /\ \A i \in (Len(s) - k + 1)..Len(s) : s[i] \in Digits

\* str(n) for an integer
RECURSIVE NatStr(_)
NatStr(n) == IF n < 10 THEN <<DigitChar(n)>> ELSE NatStr(n \div 10) \o <<DigitChar(n % 10)>>

IntStr(n) == IF n < 0 THEN <<"-">> \o NatStr(0 - n) ELSE NatStr(n)

\* the grouping of the format specifier ',' with sep in the place of the comma
RECURSIVE GroupDigits(_, _)
GroupDigits(ds, sep) ==
    IF Len(ds) <= 3 THEN ds
    ELSE GroupDigits(SubSeq(ds, 1, Len(ds) - 3), sep) \o <<sep>> \o SubSeq(ds, Len(ds) - 2, Len(ds))

Grouped(n, sep) ==
    IF n < 0 THEN <<"-">> \o GroupDigits(NatStr(0 - n), sep) ELSE GroupDigits(NatStr(n), sep)

(***************************************************************************)
(* parse_money / format_money, module level.                               *)
(***************************************************************************)
NoneVal == [ok |-> FALSE, v |-> 0]
Some(n) == [ok |-> TRUE, v |-> n]

\* MoneyResidue with the later-separator comparison inverted
MoneyResidueEarlierSep(s0) ==
    LET s1 == IF Contains(s0, ".") /\ Contains(s0, ",")
              THEN IF RFind(s0, ",") < RFind(s0, ".")
                   THEN SubSeq(s0, 1, RFind(s0, ",") - 1)
                   ELSE SubSeq(s0, 1, RFind(s0, ".") - 1)
              ELSE IF EndsSepDigits(s0, 2) /\ ~EndsSepDigits(s0, 3)
                   THEN SubSeq(s0, 1, Len(s0) - 3)
                   ELSE s0
    IN StripSeparators(s1)

\* MoneyResidue taking a three-digit suffix for a decimal part as well
MoneyResidueDecimal3(s0) ==
    LET s1 == IF Contains(s0, ".") /\ Contains(s0, ",")
              THEN IF RFind(s0, ",") > RFind(s0, ".")
                   THEN SubSeq(s0, 1, RFind(s0, ",") - 1)
                   ELSE SubSeq(s0, 1, RFind(s0, ".") - 1)
              ELSE IF EndsSepDigits(s0, 2)
                   THEN SubSeq(s0, 1, Len(s0) - 3)
                   ELSE IF EndsSepDigits(s0, 3)
                        THEN SubSeq(s0, 1, Len(s0) - 4)
                        ELSE s0
    IN StripSeparators(s1)

\* the separator handling shared by every copy of parse_money: the text that
\* is handed to int()
MoneyResidue(s0) ==
    LET s1 == IF Contains(s0, ".") /\ Contains(s0, ",")
              THEN IF RFind(s0, ",") > RFind(s0, ".")
                   THEN SubSeq(s0, 1, RFind(s0, ",") - 1)
                   ELSE SubSeq(s0, 1, RFind(s0, ".") - 1)
              ELSE IF EndsSepDigits(s0, 2) /\ ~EndsSepDigits(s0, 3)
                   THEN SubSeq(s0, 1, Len(s0) - 3)
                   ELSE s0
    IN StripSeparators(s1)

parse_money(value) ==
    IF value = <<>> THEN NoneVal
    ELSE LET clean == MoneyResidue(Strip(value))
         IN IF IntValid(clean) THEN Some(IntValue(clean)) ELSE NoneVal

format_money(value) == Grouped(value, ",")

(***************************************************************************)
(* parse_money / format_money nested in extract_invoice_data.  The nested  *)
(* parser answers 0, not None, for a blank or unparsable token.            *)
(***************************************************************************)
ParseMoneyIn(s) ==
    IF s = <<>> THEN 0
    ELSE LET clean == MoneyResidue(Strip(s))
         IN IF IntValid(clean) THEN IntValue(clean) ELSE 0

\* parse_money(n) for an integer argument: "not s" holds of 0, otherwise str(n)
ParseMoneyInInt(n) == IF n = 0 THEN 0 ELSE ParseMoneyIn(IntStr(n))

FormatMoneyIn(n) == Grouped(ParseMoneyInInt(n), ".")

(***************************************************************************)
(* The record of extract_invoice_data.  The keys are the keys of the       *)
(* dictionary `data`, written without diacritics.                          *)
(***************************************************************************)
FILE == "Ten file"
DATE == "Ngay hoa don"
INV == "So hoa don"
SELLER == "Don vi ban"
CAT == "Phan loai"
PRE == "So tien truoc Thue"
T0 == "Thue 0%"
T5 == "Thue 5%"
T8 == "Thue 8%"
T10 == "Thue 10%"
T_KHAC == "Thue khac"
TAX == "Tien thue"
TOTAL == "So tien sau"
LINK == "Link lay hoa don"
LOOKUP == "Ma tra cuu"
MST == "Ma so thue"
CQT == "Ma CQT"
SERIAL == "Ky hieu"
PV == "Phi PV"

Keys == {FILE, DATE, INV, SELLER, CAT, PRE, T0, T5, T8, T10, T_KHAC, TAX, TOTAL,
         LINK, LOOKUP, MST, CQT, SERIAL, PV}

RateKeys == {T0, T5, T8, T10}
BucketKeys == {T0, T5, T8, T10, T_KHAC}
Rates == {0, 5, 8, 10}

\* f"Thue {rate}%"
RateKey(r) == CASE r = 0 -> T0 [] r = 5 -> T5 [] r = 8 -> T8 [] r = 10 -> T10

\* "khong nhan dien duoc"
Sentinel ==
    <<"k", "h", "o", "n", "g", " ", "n", "h", "a", "n", " ",
      "d", "i", "e", "n", " ", "d", "u", "o", "c">>

FileName == <<"a", ".", "p", "d", "f">>

\* the dictionary `data` as created: every field blank but the file name
NewRecord == [k \in Keys |-> IF k = FILE THEN FileName ELSE <<>>]

\* round(num / den) of Python 3 for den > 0: to the nearest integer, ties to even
PyRound(num, den) ==
    LET q == num \div den
        r == num % den
    IN IF 2 * r < den THEN q
       ELSE IF 2 * r > den THEN q + 1
       ELSE IF q % 2 = 0 THEN q ELSE q + 1

Abs(x) == IF x < 0 THEN 0 - x ELSE x

\* the digits of a rate label: "10" -> 10
RateLabels == { <<"1", "0">>, <<"8">>, <<"5">>, <<"0">> }

(***************************************************************************)
(* Amount extraction of extract_invoice_data.  The text of the document is *)
(* represented by what each regular expression finds in it: a stage takes  *)
(* the record and the groups of its match (<<>> when there is no match).   *)
(***************************************************************************)
Blank(s) == s = <<>>

\* the element of a set of one element; a value a rule computes is named by
\* { ... x ... : x \in {value} }, the way a statement names it by assignment
The(S) == CHOOSE x \in S : TRUE

AnyBucket(d, ks) == \E k \in ks : ~Blank(d[k])

\* a dictionary update data[k] = v for every k of ks with a value in m
Overlay(d, m, ks) == [k \in Keys |-> IF k \in ks /\ ~Blank(m[k]) THEN m[k] ELSE d[k]]

\* for n in reversed(nums_list): if parse_money(n) > 0: take n
RECURSIVE LastPositive(_)
LastPositive(nums) ==
    IF nums = <<>> THEN <<>>
    ELSE IF ParseMoneyIn(nums[Len(nums)]) > 0 THEN nums[Len(nums)]
    ELSE LastPositive(SubSeq(nums, 1, Len(nums) - 1))

\* " ".join(parts)
RECURSIVE JoinParts(_)
JoinParts(parts) ==
    IF parts = <<>> THEN <<>>
    ELSE IF Len(parts) = 1 THEN parts[1]
    ELSE parts[1] \o <<" ">> \o JoinParts(Tail(parts))

BeforeTaxPatterns(d, m) == IF Blank(m) THEN d ELSE [d EXCEPT ![PRE] = m]

TienHangRow(d, nums) ==
    IF Blank(d[PRE]) /\ ~Blank(LastPositive(nums))
    THEN [d EXCEPT ![PRE] = LastPositive(nums)]
    ELSE d

VatPatterns(d, m) == IF Blank(m) THEN d ELSE [d EXCEPT ![TAX] = m]

\* every rule that matches writes its column, a later rule over an earlier one
MultiColPatterns(d, m) == Overlay(d, m, RateKeys)

SimplePatterns(d, m) == IF AnyBucket(d, BucketKeys) THEN d ELSE Overlay(d, m, RateKeys)

SimpleTax(d, m) == IF Blank(d[TAX]) /\ ~Blank(m) THEN [d EXCEPT ![TAX] = m] ELSE d

ServiceCharge(d, m) == IF Blank(m) THEN d ELSE [d EXCEPT ![PV] = m]

EarlyRateInference(d) ==
    IF ~Blank(d[TAX]) /\ ~AnyBucket(d, RateKeys)
    THEN LET total_tax == ParseMoneyIn(d[TAX])
             before_tax == ParseMoneyIn(d[PRE])
         IN IF total_tax # 0 /\ before_tax # 0 /\ before_tax > 0
            THEN LET rate == PyRound(total_tax * 100, before_tax)
                 IN IF rate \in Rates
                    THEN [d EXCEPT ![RateKey(rate)] = d[TAX]]
                    ELSE [d EXCEPT ![T_KHAC] = d[TAX]]
            ELSE d
    ELSE d

SalesInvoice(d, is_sales_invoice, m) ==
    IF is_sales_invoice
    THEN The({ IF ~Blank(d1[TOTAL]) /\ Blank(d1[PRE]) THEN [d1 EXCEPT ![PRE] = d1[TOTAL]] ELSE d1 :
               d1 \in { IF Blank(d[TOTAL]) /\ ~Blank(m) THEN [d EXCEPT ![TOTAL] = Strip(m)] ELSE d } })
    ELSE d

\* all(c in '0123456789.,' for c in ''.join(parts))
AllMoneyChars(parts) ==
    \A i \in 1..Len(parts) : \A j \in 1..Len(parts[i]) : parts[i][j] \in Digits \cup {".", ","}

\* m.n: the number of groups of the first rule that matches, 0 when none does;
\* m.toks: the groups of its last match, and for a rule of one group the
\* numbers of the capture, split at white space
AfterTaxPatterns(d, m) ==
    LET k == Len(m.toks)
    IN IF m.n = 0 THEN d
       ELSE IF m.n >= 3 THEN [d EXCEPT ![TOTAL] = m.toks[3], ![TAX] = m.toks[2], ![PRE] = m.toks[1]]
       ELSE IF m.n = 2
            THEN [d EXCEPT ![TOTAL] = m.toks[2],
                           ![PRE] = IF Blank(d[PRE]) THEN m.toks[1] ELSE d[PRE]]
       ELSE IF k >= 3 /\ AllMoneyChars(m.toks)
            THEN [d EXCEPT ![TOTAL] = m.toks[k], ![TAX] = m.toks[k - 1], ![PRE] = m.toks[1]]
            ELSE [d EXCEPT ![TOTAL] = JoinParts(m.toks)]

TienThanhToanRow(d, nums) ==
    IF Blank(d[TOTAL]) /\ ~Blank(LastPositive(nums))
    THEN [d EXCEPT ![TOTAL] = LastPositive(nums)]
    ELSE d

DirectSales(d, m) ==
    IF (Blank(d[TOTAL]) \/ Blank(d[PRE])) /\ ~Blank(m)
    THEN [d EXCEPT ![TOTAL] = IF Blank(d[TOTAL]) THEN m ELSE d[TOTAL],
                   ![PRE] = IF Blank(d[PRE]) THEN m ELSE d[PRE]]
    ELSE d

DoubleMatch(d, m) == IF m = <<>> THEN d ELSE [d EXCEPT ![PRE] = m[1], ![TAX] = m[2]]

SalesNoVat(d, titled, m) ==
    IF Blank(d[TOTAL]) /\ ~Blank(d[PRE])
    THEN IF titled THEN [d EXCEPT ![TOTAL] = d[PRE]]
         ELSE IF ~Blank(m) THEN [d EXCEPT ![TOTAL] = m] ELSE d
    ELSE d

NoiseThreshold == 1000

\* the nested parse_money never answers None, so a blank column counts as 0
NoiseFloor(d) ==
    [k \in Keys |->
        IF k \in {PRE, TAX, TOTAL} /\ ParseMoneyIn(d[k]) < NoiseThreshold THEN <<>> ELSE d[k]]

(***************************************************************************)
(* Reconciliation of pre-tax, tax and total.                               *)
(***************************************************************************)
\* `before is not None and vat is not None` holds for every answer of the
\* nested parse_money, so the branch for an unknown VAT is never taken
DeriveTotal(d) ==
    IF Blank(d[TOTAL])
    THEN [d EXCEPT ![TOTAL] = FormatMoneyIn(ParseMoneyIn(d[PRE]) + ParseMoneyIn(d[TAX]))]
    ELSE d

ReverseCase(d) ==
    IF ~Blank(d[TOTAL]) /\ Blank(d[PRE])
    THEN LET after == ParseMoneyIn(d[TOTAL])
             vat == ParseMoneyIn(d[TAX])
         IN IF vat = 0 THEN [d EXCEPT ![PRE] = d[TOTAL]]
            ELSE [d EXCEPT ![PRE] = FormatMoneyIn(after - vat)]
    ELSE d

GarbageTotal(d, m) ==
    IF Blank(d[TOTAL]) /\ ~Blank(m)
    THEN [d EXCEPT ![TOTAL] = m, ![PRE] = IF Blank(d[PRE]) THEN m ELSE d[PRE]]
    ELSE d

RECURSIVE SumItems(_)
SumItems(items) ==
    IF items = <<>> THEN 0 ELSE ParseMoneyIn(items[1].amount) + SumItems(Tail(items))

\* line_items is the list to be returned, empty until the items are stored
LineItemFallback(d, items) ==
    IF (Blank(d[PRE]) \/ Blank(d[TOTAL])) /\ items # <<>> /\ SumItems(items) > 0 /\ Blank(d[PRE])
    THEN [d EXCEPT ![PRE] = FormatMoneyIn(SumItems(items))]
    ELSE d

RerunTax(d) ==
    IF ~Blank(d[TAX]) /\ Blank(d[TOTAL]) /\ ~Blank(d[PRE])
          /\ ParseMoneyIn(d[PRE]) # 0 /\ ParseMoneyIn(d[TAX]) # 0
    THEN [d EXCEPT ![TOTAL] = FormatMoneyIn(ParseMoneyIn(d[PRE]) + ParseMoneyIn(d[TAX]))]
    ELSE d

(***************************************************************************)
(* Summary table and grand-total line.  A summary line is <<rate, n1, n2,  *)
(* n3>> with n3 blank when the line has two numbers.                       *)
(***************************************************************************)
Min2(a, b) == IF a <= b THEN a ELSE b
Max2(a, b) == IF a <= b THEN b ELSE a
Min3(a, b, c) == Min2(a, Min2(b, c))
Max3(a, b, c) == Max2(a, Max2(b, c))
Mid3(a, b, c) == a + b + c - Min3(a, b, c) - Max3(a, b, c)

\* vals[0] of the sorted values of a summary line
LineTax(ln) ==
    IF Blank(ln[4]) THEN Min2(ParseMoneyIn(ln[2]), ParseMoneyIn(ln[3]))
    ELSE Min3(ParseMoneyIn(ln[2]), ParseMoneyIn(ln[3]), ParseMoneyIn(ln[4]))

RECURSIVE SummaryBuckets(_, _)
SummaryBuckets(d, lines) ==
    IF lines = <<>> THEN d
    ELSE SummaryBuckets([d EXCEPT ![RateKey(lines[1][1])] = FormatMoneyIn(LineTax(lines[1]))],
                        Tail(lines))

RECURSIVE TaxTotalCalc(_)
TaxTotalCalc(lines) == IF lines = <<>> THEN 0 ELSE LineTax(lines[1]) + TaxTotalCalc(Tail(lines))

SummaryTables(d, lines) ==
    The({ IF tax_total_calc > 0
             /\ (Blank(d1[TAX]) \/ ParseMoneyIn(d1[TAX]) # tax_total_calc)
          THEN [d1 EXCEPT ![TAX] = FormatMoneyIn(tax_total_calc)]
          ELSE d1 :
          d1 \in {SummaryBuckets(d, lines)}, tax_total_calc \in {TaxTotalCalc(lines)} })

GrandTotal(d, m) ==
    IF m = <<>> THEN d
    ELSE LET v1 == ParseMoneyIn(m[1])
             v2 == ParseMoneyIn(m[2])
             v3 == ParseMoneyIn(m[3])
         IN [d EXCEPT ![TAX] = FormatMoneyIn(Min3(v1, v2, v3)),
                      ![PRE] = FormatMoneyIn(Mid3(v1, v2, v3)),
                      ![TOTAL] = FormatMoneyIn(Max3(v1, v2, v3))]

LookupCode(d, m) == IF Blank(d[LOOKUP]) /\ ~Blank(m) THEN [d EXCEPT ![LOOKUP] = m] ELSE d

\* int(data["Thue khac"]) for a label of RateLabels
LabelRate(s) == DigitsValue(s)

OtherRateLabel(d) ==
    IF d[T_KHAC] \in RateLabels
    THEN LET rate == LabelRate(d[T_KHAC])
             rate_key == RateKey(rate)
             pre == ParseMoneyIn(d[PRE])
             calc_tax == PyRound(pre * rate, 100)
         IN IF Blank(d[rate_key]) /\ ~Blank(d[TAX])
            THEN [d EXCEPT ![rate_key] = d[TAX], ![T_KHAC] = <<>>]
            ELSE IF Blank(d[rate_key]) /\ ~Blank(d[PRE]) /\ pre # 0
            THEN [d EXCEPT ![rate_key] = FormatMoneyIn(calc_tax),
                           ![TAX] = FormatMoneyIn(calc_tax),
                           ![TOTAL] = IF Blank(d[TOTAL])
                                         \/ (ParseMoneyIn(d[TOTAL]) # 0
                                             /\ Abs(ParseMoneyIn(d[TOTAL]) - pre) < 100)
                                      THEN FormatMoneyIn(pre + calc_tax)
                                      ELSE d[TOTAL],
                           ![T_KHAC] = <<>>]
            ELSE d
    ELSE d

(***************************************************************************)
(* Line items: aggregation of the tax per rate and the sanity check of the *)
(* tax amount.  An item is [name, amount, tax_rate], tax_rate blank when   *)
(* the row names no rate.                                                  *)
(***************************************************************************)
RECURSIVE TaxMap(_, _)
TaxMap(items, r) ==
    IF items = <<>> THEN 0
    ELSE (IF ~Blank(items[1].tax_rate) /\ ~Blank(items[1].amount)
             /\ LabelRate(items[1].tax_rate) = r
          THEN PyRound(ParseMoneyIn(items[1].amount) * r, 100)
          ELSE 0) + TaxMap(Tail(items), r)

HasItemTax(items) ==
    \E i \in 1..Len(items) : ~Blank(items[i].tax_rate) /\ ~Blank(items[i].amount)

\* the aggregate of a rate overwrites the bucket whenever it is positive
FillBucketAlways(d, items, r) ==
    The({ IF calc > 0 THEN [d EXCEPT ![RateKey(r)] = FormatMoneyIn(calc)] ELSE d :
          calc \in {TaxMap(items, r)} })

FillBucket(d, items, r) ==
    The({ IF calc > 0 /\ (curr_val = 0 \/ 2 * Abs(curr_val - calc) > calc)
          THEN [d EXCEPT ![RateKey(r)] = FormatMoneyIn(calc)]
          ELSE d :
          calc \in {TaxMap(items, r)}, curr_val \in {ParseMoneyIn(d[RateKey(r)])} })

AggregateItemTax(d, items) ==
    IF HasItemTax(items)
    THEN The({ IF ParseMoneyIn(d4[TAX]) = 0
                  \/ (total_item_tax > ParseMoneyIn(d4[TAX]) /\ total_item_tax > 1000)
               THEN [d4 EXCEPT ![TAX] = FormatMoneyIn(total_item_tax)]
               ELSE d4 :
               d4 \in { FillBucket(d3, items, 10) :
               d3 \in { FillBucket(d2, items, 8) :
               d2 \in { FillBucket(d1, items, 5) :
               d1 \in { FillBucket(d, items, 0) } } } },
               total_item_tax \in { TaxMap(items, 0) + TaxMap(items, 5) + TaxMap(items, 8)
                                      + TaxMap(items, 10) } })
    ELSE d

TaxSanityCheck(d) ==
    IF ~Blank(d[TAX]) /\ (~Blank(d[PRE]) \/ ~Blank(d[TOTAL]))
    THEN LET t_val == ParseMoneyIn(d[TAX])
             p0 == ParseMoneyIn(d[PRE])
             p_val == IF p0 = 0 /\ ~Blank(d[TOTAL]) THEN ParseMoneyIn(d[TOTAL]) ELSE p0
         IN IF t_val # 0 /\ p_val # 0 /\ p_val > 10000 /\ t_val >= p_val
            THEN [k \in Keys |->
                    IF k = TAX THEN <<>>
                    ELSE IF k \in BucketKeys /\ ParseMoneyIn(d[k]) = t_val THEN <<>>
                    ELSE d[k]]
            ELSE d
    ELSE d

\* the block `if services:`; the sanity check is part of it
StoreItems(d, items) ==
    IF items = <<>> THEN d
    ELSE The({ TaxSanityCheck(d1) : d1 \in {AggregateItemTax(d, items)} })

(***************************************************************************)
(* The steps after the try block.                                          *)
(***************************************************************************)
TaxFromBuckets(d) ==
    LET calc_tax == ParseMoneyIn(d[T0]) + ParseMoneyIn(d[T5]) + ParseMoneyIn(d[T8])
                      + ParseMoneyIn(d[T10]) + ParseMoneyIn(d[T_KHAC])
    IN IF Blank(d[TAX]) /\ calc_tax > 0 THEN [d EXCEPT ![TAX] = FormatMoneyIn(calc_tax)] ELSE d

FinalRateInference(d) ==
    IF ~Blank(d[TAX]) /\ ~Blank(d[PRE]) /\ ~AnyBucket(d, RateKeys)
    THEN LET t_val == ParseMoneyIn(d[TAX])
             p_val == ParseMoneyIn(d[PRE])
         IN IF t_val > 0 /\ p_val > 0 /\ PyRound(t_val * 100, p_val) \in Rates
            THEN [d EXCEPT ![RateKey(PyRound(t_val * 100, p_val))] = d[TAX]]
            ELSE d
    ELSE d

\* " ".join(val.split()) on a value without tabs and control characters
RECURSIVE SquashSpaces(_)
SquashSpaces(s) ==
    IF Len(s) < 2 THEN s
    ELSE IF s[1] = " " /\ s[2] = " " THEN SquashSpaces(Tail(s))
    ELSE <<s[1]>> \o SquashSpaces(Tail(s))

clean_string_value(val) == SquashSpaces(Strip(val))

CleanFields(d) == [k \in Keys |-> clean_string_value(d[k])]

OtherBucketCleanup(d) ==
    IF Blank(d[T_KHAC]) THEN d
    ELSE The({ IF ParseMoneyIn(d1[T_KHAC]) # 0
                  /\ (ParseMoneyIn(d1[T_KHAC]) = ParseMoneyIn(d1[TOTAL])
                      \/ ParseMoneyIn(d1[T_KHAC]) = ParseMoneyIn(d1[TAX]))
               THEN [d1 EXCEPT ![T_KHAC] = <<>>]
               ELSE d1 :
               d1 \in { IF d[T_KHAC] \in RateLabels /\ ~Blank(d[RateKey(LabelRate(d[T_KHAC]))])
                        THEN [d EXCEPT ![T_KHAC] = <<>>]
                        ELSE d } })

MoneyKeys == {PRE, TAX, T0, T5, T8, T10, T_KHAC, TOTAL}

MoneyCleanup(d) ==
    [k \in Keys |->
        IF k \in MoneyKeys /\ ~Blank(d[k]) /\ ParseMoneyIn(d[k]) # 0
        THEN FormatMoneyIn(ParseMoneyIn(d[k]))
        ELSE d[k]]

(***************************************************************************)
(* Strings: case conversion and search.                                    *)
(***************************************************************************)
LowerLetters ==
    <<"a", "b", "c", "d", "e", "f", "g", "h", "i", "j", "k", "l", "m",
      "n", "o", "p", "q", "r", "s", "t", "u", "v", "w", "x", "y", "z">>

UpperLetters ==
    <<"A", "B", "C", "D", "E", "F", "G", "H", "I", "J", "K", "L", "M",
      "N", "O", "P", "Q", "R", "S", "T", "U", "V", "W", "X", "Y", "Z">>

LetterIndex(c, letters) == CHOOSE i \in 1..Len(letters) : letters[i] = c

IsLower(c) == \E i \in 1..Len(LowerLetters) : LowerLetters[i] = c
IsUpper(c) == \E i \in 1..Len(UpperLetters) : UpperLetters[i] = c

\* str.upper() and str.lower()
ToUpper(s) ==
    IF s = <<>> THEN <<>>
    ELSE [i \in 1..Len(s) |->
            IF IsLower(s[i]) THEN UpperLetters[LetterIndex(s[i], LowerLetters)] ELSE s[i]]

ToLower(s) ==
    IF s = <<>> THEN <<>>
    ELSE [i \in 1..Len(s) |->
            IF IsUpper(s[i]) THEN LowerLetters[LetterIndex(s[i], UpperLetters)] ELSE s[i]]

\* t in s
IsSubstr(t, s) == \E i \in 0..(Len(s) - Len(t)) : SubSeq(s, i + 1, i + Len(t)) = t

\* a character of the class \w
IsWordChar(c) == IsLower(c) \/ IsUpper(c) \/ c \in Digits \/ c = "_"

WordAt(s, i) == i >= 1 /\ i <= Len(s) /\ IsWordChar(s[i])

\* re.search(r'\b' + re.escape(kw) + r'\b', s)
WordMatch(kw, s) ==
    \E i \in 1..(Len(s) - Len(kw) + 1) :
        /\ SubSeq(s, i, i + Len(kw) - 1) = kw
        /\ WordAt(s, i - 1) # WordAt(s, i)
        /\ WordAt(s, i + Len(kw) - 1) # WordAt(s, i + Len(kw))

(***************************************************************************)
(* classify_content: the categories, their keywords and the F&B brands,   *)
(* written without diacritics.                                            *)
(***************************************************************************)
CAT_AN_UONG == <<"D", "i", "c", "h", " ", "v", "u", " ", "a", "n", " ", "u", "o", "n", "g">>
CAT_PHONG_NGHI == <<"D", "i", "c", "h", " ", "v", "u", " ", "p", "h", "o", "n", "g", " ", "n", "g", "h", "i">>
CAT_HOA_TUOI == <<"H", "o", "a", " ", "t", "u", "o", "i">>
CAT_THE_CAO == <<"T", "h", "e", " ", "c", "a", "o", " ", "d", "i", "e", "n", " ", "t", "h", "o", "a", "i">>
CAT_XANG_XE == <<"X", "a", "n", "g", " ", "x", "e">>
CAT_QUA_TANG == <<"Q", "u", "a", " ", "t", "a", "n", "g">>
CAT_KHAC == <<"K", "h", "a", "c">>
CAT_DU_LICH == <<"D", "i", "c", "h", " ", "v", "u", " ", "d", "u", " ", "l", "i", "c", "h">>

\* the categories in the order of the dictionary CATEGORY_KEYWORDS
Categories == <<CAT_AN_UONG, CAT_PHONG_NGHI, CAT_HOA_TUOI, CAT_THE_CAO, CAT_XANG_XE, CAT_QUA_TANG>>

CATEGORY_KEYWORDS ==
  <<
    \* Dich vu an uong
    <<
      <<"m", "o", "n">>, <<"l", "a", "u">>, <<"g", "a">>, <<"b", "o">>, <<"h", "e", "o">>, <<"c", "a">>,
        <<"c", "u", "a">>, <<"m", "u", "c">>, <<"t", "o", "m">>, <<"g", "h", "e">>, <<"s", "o">>,
        <<"g", "o", "i">>, <<"x", "a", "o">>, <<"n", "u", "o", "n", "g">>, <<"c", "h", "i", "e", "n">>,
        <<"h", "a", "p">>, <<"h", "a", "m">>, <<"q", "u", "a", "y">>, <<"c", "o", "m">>, <<"x", "o", "i">>,
        <<"s", "o", "u", "p">>, <<"t", "r", "a">>, <<"c", "a", " ", "p", "h", "e">>, <<"n", "u", "o", "c">>,
        <<"c", "o", "c", "a">>, <<"m", "a", "t", "c", "h", "a">>, <<"o", "o", "l", "o", "n", "g">>,
        <<"t", "r", "a", "i", " ", "c", "a", "y">>, <<"b", "a", "n", "h">>, <<"d", "a", "u">>,
        <<"t", "r", "u", "n", "g">>, <<"l", "u", "o", "n">>, <<"h", "a", "u">>,
        <<"k", "h", "o", " ", "m", "u", "c">>, <<"k", "h", "a", "n", " ", "l", "a", "n", "h">>,
        <<"h", "u", " ", "t", "i", "e", "u">>, <<"b", "a", "b", "a">>, <<"b", "o", " ", "c", "a", "u">>,
        <<"c", "h", "a">>, <<"d", "u", "a">>, <<"k", "h", "o", "a", "n", "g">>, <<"s", "u", "o", "i">>,
        <<"s", "a">>, <<"r", "u", "o", "u">>, <<"c", "o", "f", "f", "e", "e">>, <<"c", "a", "f", "e">>,
        <<"k", "a", "t", "i", "n", "a", "t">>, <<"h", "i", "g", "h", "l", "a", "n", "d", "s">>,
        <<"s", "t", "a", "r", "b", "u", "c", "k", "s">>, <<"p", "h", "u", "c", " ", "l", "o", "n", "g">>,
        <<"t", "r", "u", "n", "g", " ", "n", "g", "u", "y", "e", "n">>,
        <<"g", "o", "l", "d", "e", "n", " ", "g", "a", "t", "e">>, <<"p", "i", "z", "z", "a">>,
        <<"k", "f", "c">>, <<"l", "o", "t", "t", "e", "r", "i", "a">>,
        <<"j", "o", "l", "l", "i", "b", "e", "e">>, <<"m", "c", "d", "o", "n", "a", "l", "d">>,
        <<"d", "o", "m", "i", "n", "o">>,
        <<"x", "a", " ", "l", "a", "c", "h", " ", "r", "a", "u", " ", "m", "a", "m">>,
        <<"b", "u", "f", "f", "e", "t">>
    >>,
    \* Dich vu phong nghi
    <<
      <<"t", "h", "u", "e", " ", "p", "h", "o", "n", "g">>, <<"p", "h", "o", "n", "g", " ", "s", "o">>,
        <<"c", "h", "o", " ", "t", "h", "u", "e", " ", "p", "h", "o", "n", "g">>,
        <<"p", "h", "o", "n", "g", " ", "h", "o", "p">>,
        <<"m", "e", "e", "t", "i", "n", "g", " ", "r", "o", "o", "m">>, <<"h", "o", "t", "e", "l">>,
        <<"k", "h", "a", "c", "h", " ", "s", "a", "n">>, <<"h", "o", "m", "e", "s", "t", "a", "y">>,
        <<"r", "e", "s", "o", "r", "t">>
    >>,
    \* Hoa tuoi
    <<
      <<"h", "o", "a", " ", "t", "u", "o", "i">>, <<"h", "o", "a">>, <<"b", "o", " ", "h", "o", "a">>,
        <<"l", "a", "n", "g", " ", "h", "o", "a">>, <<"k", "e", " ", "h", "o", "a">>
    >>,
    \* The cao dien thoai
    <<
      <<"c", "u", "o", "c">>, <<"d", "i", " ", "d", "o", "n", "g">>, <<"t", "h", "e", " ", "c", "a", "o">>,
        <<"s", "i", "m">>, <<"d", "i", "e", "n", " ", "t", "h", "o", "a", "i">>,
        <<"i", "n", "t", "e", "r", "n", "e", "t">>, <<"m", "a", "n", "g">>,
        <<"m", "e", "n", "h", " ", "g", "i", "a">>,
        <<"t", "h", "e", " ", "c", "a", "o", " ", "m", "e", "n", "h", " ", "g", "i", "a">>,
        <<"v", "i", "e", "t", "t", "e", "l">>, <<"m", "o", "b", "i", "f", "o", "n", "e">>,
        <<"v", "i", "n", "a", "p", "h", "o", "n", "e">>
    >>,
    \* Xang xe
    <<
      <<"x", "a", "n", "g">>, <<"d", "a", "u">>, <<"d", "i", "e", "s", "e", "l">>,
        <<"r", "o", "n", "9", "5">>, <<"r", "o", "n", "9", "2">>, <<"e", "5">>,
        <<"d", "o", " ", "0", ".", "0", "5", "s">>, <<"p", "e", "t", "r", "o", "l", "i", "m", "e", "x">>
    >>,
    \* Qua tang
    <<
      <<"q", "u", "a">>, <<"g", "i", "f", "t">>, <<"q", "u", "a", " ", "t", "a", "n", "g">>,
        <<"t", "a", "n", "g", " ", "p", "h", "a", "m">>
    >>
  >>

FB_BRANDS ==
  {
    <<"K", "A", "T", "I", "N", "A", "T">>, <<"H", "I", "G", "H", "L", "A", "N", "D", "S">>,
      <<"S", "T", "A", "R", "B", "U", "C", "K", "S">>, <<"P", "H", "U", "C", " ", "L", "O", "N", "G">>,
      <<"C", "O", "F", "F", "E", "E", " ", "H", "O", "U", "S", "E">>,
      <<"T", "R", "U", "N", "G", " ", "N", "G", "U", "Y", "E", "N">>,
      <<"G", "O", "L", "D", "E", "N", " ", "G", "A", "T", "E">>, <<"P", "I", "Z", "Z", "A">>,
      <<"K", "F", "C">>, <<"L", "O", "T", "T", "E", "R", "I", "A">>,
      <<"J", "O", "L", "L", "I", "B", "E", "E">>, <<"M", "C", "D", "O", "N", "A", "L", "D">>,
      <<"D", "O", "M", "I", "N", "O">>
  }

\* the score of the category of index c for the lower-cased text
Score(c, text_lower) ==
    Cardinality({ j \in 1..Len(CATEGORY_KEYWORDS[c]) :
                    IF Categories[c] = CAT_XANG_XE
                    THEN IsSubstr(CATEGORY_KEYWORDS[c][j], text_lower)
                    ELSE WordMatch(CATEGORY_KEYWORDS[c][j], text_lower) })

\* max(scores, key=scores.get): the first category of the highest score
BestCategory(text_lower) ==
    CHOOSE c \in 1..Len(Categories) :
        /\ \A e \in 1..Len(Categories) : Score(e, text_lower) <= Score(c, text_lower)
        /\ \A e \in 1..(c - 1) : Score(e, text_lower) < Score(c, text_lower)

HasBrand(seller_name) == \E brand \in FB_BRANDS : IsSubstr(brand, ToUpper(seller_name))

classify_content(services_text, seller_name) ==
    IF seller_name # <<>> /\ HasBrand(seller_name) THEN CAT_AN_UONG
    ELSE IF services_text = <<>> THEN CAT_KHAC
    ELSE The({ IF \E c \in 1..Len(Categories) : Score(c, text_lower) > 0
               THEN Categories[BestCategory(text_lower)]
               ELSE CAT_KHAC :
               text_lower \in {ToLower(services_text)} })

\* " ".join([item.get("name", "") for item in line_items])
RECURSIVE JoinNames(_)
JoinNames(items) ==
    IF items = <<>> THEN <<>>
    ELSE IF Len(items) = 1 THEN items[1].name
    ELSE items[1].name \o <<" ">> \o JoinNames(Tail(items))

(***************************************************************************)
(* validate_invoice_data.  An issue is [field, severity, kind]; kind names *)
(* the message of the issue.                                               *)
(***************************************************************************)
\* _parse_money of validate_invoice_data: separators stripped, then int()
ValidateParseMoney(s) ==
    IF s = <<>> THEN 0
    ELSE LET t == StripSeparators(Strip(s))
         IN IF IntValid(t) THEN IntValue(t) ELSE 0

DigitRun(s, lo, hi) == Len(s) >= lo /\ Len(s) <= hi /\ AllDigits(s)

\* re.match(r'^\d{1,2}/\d{1,2}/\d{4}$', s)
DateFormatOk(s) ==
    \E i, j \in 1..Len(s) :
        /\ i < j /\ s[i] = "/" /\ s[j] = "/"
        /\ DigitRun(SubSeq(s, 1, i - 1), 1, 2)
        /\ DigitRun(SubSeq(s, i + 1, j - 1), 1, 2)
        /\ DigitRun(SubSeq(s, j + 1, Len(s)), 4, 4)

\* re.match(r'^[\d\-]{10,14}$', s)
MstFormatOk(s) ==
    Len(s) >= 10 /\ Len(s) <= 14 /\ \A i \in 1..Len(s) : s[i] \in Digits \cup {"-"}

Issue(f, sev, kind) == [field |-> f, severity |-> sev, kind |-> kind]

IssueIf(cond, f, sev, kind) == IF cond THEN <<Issue(f, sev, kind)>> ELSE <<>>

\* mutant: a date of the wrong format raises no issue
validate_invoice_dataNoDateFormat(d) ==
    LET before_tax == ValidateParseMoney(d[PRE])
        after_tax == ValidateParseMoney(d[TOTAL])
    IN IssueIf(Len(Strip(d[SELLER])) < 5, SELLER, "error", "missing")
       \o IssueIf(Strip(d[INV]) = <<>>, INV, "error", "missing")
       \o IssueIf(Strip(d[DATE]) = <<>>, DATE, "error", "missing")
       \o IssueIf(before_tax = 0, PRE, "error", "zero")
       \o IssueIf(after_tax = 0, TOTAL, "error", "zero")
       \o IssueIf(Strip(d[MST]) = <<>>, MST, "warning", "missing")
       \o IssueIf(Strip(d[MST]) # <<>> /\ ~MstFormatOk(Strip(d[MST])), MST, "warning", "format")
       \o IssueIf(Strip(d[LINK]) = <<>>, LINK, "warning", "missing")
       \o IssueIf(Strip(d[LOOKUP]) = <<>>, LOOKUP, "warning", "missing")
       \o IssueIf(Strip(d[SERIAL]) = <<>>, SERIAL, "warning", "missing")
       \o IssueIf(before_tax > 0 /\ after_tax > 0 /\ after_tax < before_tax,
                  TOTAL, "warning", "less")

validate_invoice_data(d) ==
    LET seller == Strip(d[SELLER])
        date_val == Strip(d[DATE])
        before_tax == ValidateParseMoney(d[PRE])
        after_tax == ValidateParseMoney(d[TOTAL])
        mst == Strip(d[MST])
    IN IssueIf(seller = <<>> \/ Len(seller) < 5, SELLER, "error", "missing")
       \o IssueIf(Strip(d[INV]) = <<>>, INV, "error", "missing")
       \o IssueIf(date_val = <<>>, DATE, "error", "missing")
       \o IssueIf(date_val # <<>> /\ ~DateFormatOk(date_val), DATE, "warning", "format")
       \o IssueIf(before_tax = 0, PRE, "error", "zero")
       \o IssueIf(after_tax = 0, TOTAL, "error", "zero")
       \o IssueIf(mst = <<>>, MST, "warning", "missing")
       \o IssueIf(mst # <<>> /\ ~MstFormatOk(mst), MST, "warning", "format")
       \o IssueIf(Strip(d[LINK]) = <<>>, LINK, "warning", "missing")
       \o IssueIf(Strip(d[LOOKUP]) = <<>>, LOOKUP, "warning", "missing")
       \o IssueIf(Strip(d[SERIAL]) = <<>>, SERIAL, "warning", "missing")
       \o IssueIf(before_tax > 0 /\ after_tax > 0 /\ after_tax < before_tax,
                  TOTAL, "warning", "less")

(***************************************************************************)
(* Final cleanup of the seller name.                                       *)
(***************************************************************************)
SellerBlacklist ==
  {
    <<"d", "a", " ", "d", "u", "o", "c", " ", "k", "y", " ", "d", "i", "e", "n", " ", "t", "u", " ", "b", "o", "i">>,
    <<"d", "u", "o", "c", " ", "k", "y", " ", "b", "o", "i">>,
    <<"k", "y", " ", "b", "o", "i", " ", "c", "o", "n", "g", " ", "t", "y">>,
    <<"d", "i", "g", "i", "t", "a", "l", "l", "y", " ", "s", "i", "g", "n", "e", "d", " ", "b", "y">>
  }

\* the labels of the prefix rule, lower case, in the order of the alternation
SellerLabels ==
  <<
    <<"s", "e", "l", "l", "e", "r">>,
    <<"c", "o", "m", "p", "a", "n", "y">>,
    <<"n", "g", "u", "o", "i", " ", "b", "a", "n">>,
    <<"d", "o", "a", "n", "h", " ", "n", "g", "h", "i", "e", "p">>,
    <<"t", "e", "n", " ", "d", "o", "n", " ", "v", "i">>,
    <<"d", "o", "n", " ", "v", "i", " ", "b", "a", "n">>
  >>

ISSUED == <<"i", "s", "s", "u", "e", "d">>
KY_HIEU == <<"K", "y", " ", "h", "i", "e", "u", ":">>
QUAN_87 == <<"Q", "u", "a", "n", " ", "8", "7">>
DU_LICH == <<"D", "U", " ", "L", "I", "C", "H">>
TRAVEL == <<"T", "R", "A", "V", "E", "L">>

Blacklisted(s) == \E bad \in SellerBlacklist : IsSubstr(bad, ToLower(s))

HasPrefix(p, s) == Len(s) >= Len(p) /\ SubSeq(s, 1, Len(p)) = p

Drop(s, n) == SubSeq(s, n + 1, Len(s))

\* one optional character of cs at the head of s, consumed
SkipOne(s, cs) == IF s # <<>> /\ Head(s) \in cs THEN Tail(s) ELSE s

\* re.sub(r'^\s*\(?Issued\)?\s*[:\.\-]\s*', '', s, flags=re.IGNORECASE).strip()
StripIssued(s) ==
    The({ IF HasPrefix(ISSUED, ToLower(a))
          THEN The({ IF b # <<>> /\ Head(b) \in {":", ".", "-"} THEN Strip(Tail(b)) ELSE Strip(s) :
                     b \in {LStrip(SkipOne(Drop(a, Len(ISSUED)), {")"}))} })
          ELSE Strip(s) :
          a \in {SkipOne(LStrip(s), {"("})} })

\* the first label of the alternation that heads s, 0 when there is none
LabelAt(s) ==
    IF \E i \in 1..Len(SellerLabels) : HasPrefix(SellerLabels[i], ToLower(s))
    THEN CHOOSE i \in 1..Len(SellerLabels) :
            /\ HasPrefix(SellerLabels[i], ToLower(s))
            /\ \A j \in 1..(i - 1) : ~HasPrefix(SellerLabels[j], ToLower(s))
    ELSE 0

\* re.sub(r'^\s*[\(\[]?\s*(?:Seller|...)\s*[\)\]]?\s*[:\.\-]?\s*', '', s, flags=re.IGNORECASE)
StripLabel(s) ==
    The({ IF n # 0
          THEN LStrip(SkipOne(LStrip(SkipOne(LStrip(Drop(a, Len(SellerLabels[n]))), {")", "]"})),
                              {":", ".", "-"}))
          ELSE s :
          <<a, n>> \in { <<x, LabelAt(x)>> : x \in {LStrip(SkipOne(LStrip(s), {"(", "["}))} } })

\* s.split("Ky hieu:")[0].strip()
RECURSIVE BeforeMark(_, _)
BeforeMark(s, mark) ==
    IF s = <<>> \/ HasPrefix(mark, s) THEN <<>> ELSE <<Head(s)>> \o BeforeMark(Tail(s), mark)

SellerCleanup(d, has_quan_87) ==
    The({ IF Blank(s1) THEN [d EXCEPT ![SELLER] = s1]
          ELSE The({ [d EXCEPT ![SELLER] = IF Blacklisted(s3) THEN <<>> ELSE s3] :
                     s3 \in { IF IsSubstr(KY_HIEU, s2) THEN Strip(BeforeMark(s2, KY_HIEU)) ELSE s2 :
                     s2 \in { StripLabel(si) : si \in {StripIssued(s1)} } } }) :
          s1 \in { IF Blank(s0) /\ has_quan_87 THEN QUAN_87 ELSE s0 :
          s0 \in { IF ~Blank(d[SELLER]) /\ Blacklisted(d[SELLER]) THEN <<>> ELSE d[SELLER] } } })

(***************************************************************************)
(* extract_ocr_invoice_fields.  The OCR text is represented by what the    *)
(* patterns find in it: o.before and o.total list the captures of the      *)
(* rules that match, in the order of the rules.                            *)
(***************************************************************************)
\* re.match(r'^20[0-9]{2}$', val)
YearLike(val) == Len(val) = 4 /\ val[1] = "2" /\ val[2] = "0" /\ val[3] \in Digits /\ val[4] \in Digits

\* the first capture that is no year and has three characters or more
RECURSIVE FirstAccepted(_)
FirstAccepted(cands) ==
    IF cands = <<>> THEN <<>>
    ELSE IF ~YearLike(Strip(cands[1])) /\ Len(Strip(cands[1])) >= 3 THEN Strip(cands[1])
    ELSE FirstAccepted(Tail(cands))

\* format_money of extract_ocr_invoice_fields
OcrFormatMoney(n) == Grouped(n, ".")

OcrRateMarker(d, o) ==
    IF o.fuel THEN (IF ~Blank(d[TAX]) THEN [d EXCEPT ![T8] = d[TAX]] ELSE d)
    ELSE IF o.pct = "8" THEN [d EXCEPT ![T8] = d[TAX]]
    ELSE IF o.pct = "10" THEN [d EXCEPT ![T10] = d[TAX]]
    ELSE d

OcrWordsTotal(d, o) ==
    IF Blank(d[TOTAL]) /\ o.words > 0 THEN [d EXCEPT ![TOTAL] = Grouped(o.words, ".")] ELSE d

\* the rate of the derived VAT: round(vat / before_tax, 2) against 0.08, 0.10,
\* 0.05; the same test as on the rounded percentage when the quotient is no tie
OcrRateBucket(vat, before_tax, petrolimex) ==
    LET pct == PyRound(vat * 100, before_tax)
    IN IF pct = 8 THEN T8
       ELSE IF pct = 10 THEN T10
       ELSE IF pct = 5 THEN T5
       ELSE IF petrolimex THEN T8
       ELSE T_KHAC

OcrAutoCalc(d, o) ==
    LET before_tax == ParseMoneyIn(d[PRE])
        vat == ParseMoneyIn(d[TAX])
        total == ParseMoneyIn(d[TOTAL])
    IN IF total = 0 /\ before_tax # 0 /\ vat # 0
       THEN [d EXCEPT ![TOTAL] = OcrFormatMoney(before_tax + vat)]
       ELSE IF total = 0 /\ before_tax # 0 /\ o.petrolimex
       THEN LET v == PyRound(before_tax * 8, 100)
            IN [d EXCEPT ![TOTAL] = OcrFormatMoney(before_tax + v),
                         ![TAX] = OcrFormatMoney(v), ![T8] = OcrFormatMoney(v)]
       ELSE IF before_tax = 0 /\ total # 0 /\ o.petrolimex
       THEN LET b == PyRound(total * 100, 108)
                v == total - b
            IN IF Blank(d[TAX])
               THEN [d EXCEPT ![PRE] = OcrFormatMoney(b),
                              ![TAX] = OcrFormatMoney(v), ![T8] = OcrFormatMoney(v)]
               ELSE [d EXCEPT ![PRE] = OcrFormatMoney(b)]
       ELSE IF vat = 0 /\ before_tax # 0 /\ total # 0
       THEN LET v == total - before_tax
            IN [d EXCEPT ![TAX] = OcrFormatMoney(v),
                         ![OcrRateBucket(v, before_tax, o.petrolimex)] = OcrFormatMoney(v)]
       ELSE d

\* the record of the matchers before the amounts are completed
OcrCaptured(o) ==
    The({ OcrWordsTotal(d2, o) :
          d2 \in { [d1 EXCEPT ![TOTAL] = FirstAccepted(o.total)] :
          d1 \in { OcrRateMarker(d0, o) :
          d0 \in { [k \in Keys |->
                     CASE k = SERIAL -> o.serial
                       [] k = SELLER -> o.seller
                       [] k = INV -> o.inv
                       [] k = DATE -> o.date
                       [] k = MST -> o.mst
                       [] k = PRE -> FirstAccepted(o.before)
                       [] k = TAX -> o.vat
                       [] k = LOOKUP -> IF Len(o.lookup) > 5 THEN o.lookup ELSE <<>>
                       [] k = CQT -> o.cqt
                       [] k = LINK -> o.link
                       [] k \notin {SERIAL, SELLER, INV, DATE, MST, PRE, TAX, LOOKUP, CQT, LINK}
                            -> <<>>] } } } })

extract_ocr_invoice_fields(o) ==
    The({ OcrAutoCalc(d3, o) : d3 \in { OcrCaptured(o) } })

\* for key, val in ocr_data.items(): if key in data and val: data[key] = val
MergeOcr(d, ocr_data) == [k \in Keys |-> IF k # FILE /\ ~Blank(ocr_data[k]) THEN ocr_data[k] ELSE d[k]]

\* the second OCR of the cropped first page at high resolution
HdOcr(d, hd, ocr_available) ==
    IF (Blank(d[INV]) \/ Blank(d[MST])) /\ ocr_available /\ ~hd.fails
    THEN [d EXCEPT ![INV] = IF Blank(d[INV]) /\ ~Blank(hd.inv) THEN hd.inv ELSE d[INV],
                   ![MST] = IF Blank(d[MST]) /\ ~Blank(hd.mst) THEN hd.mst ELSE d[MST]]
    ELSE d

OcrClassify(d, kw) ==
    [d EXCEPT ![CAT] = CASE kw = "fuel" -> CAT_XANG_XE
                         [] kw = "hotel" -> CAT_PHONG_NGHI
                         [] kw = "food" -> CAT_AN_UONG
                         [] kw = "none" -> CAT_KHAC]

(***************************************************************************)
(* extract_invoice_data.  A document is represented by the outcome of the  *)
(* text-layer read, the outcome of the OCR and what the patterns find.     *)
(***************************************************************************)
\* the cascade of the patterns of date, number, seller, tax code, link, codes
FieldCascade(d, f) ==
    Overlay(d, f, {DATE, INV, SELLER, MST, LINK, LOOKUP, CQT, SERIAL})

TravelCategory(d, text_names_travel) ==
    IF IsSubstr(DU_LICH, ToUpper(d[SELLER])) \/ IsSubstr(TRAVEL, ToUpper(d[SELLER]))
          \/ text_names_travel
    THEN [d EXCEPT ![CAT] = CAT_DU_LICH]
    ELSE d

\* the statements of the try block from the test of an empty text to the
\* clearing of the amounts below 1000
BeforeDeriveTotal(d0, m) ==
    The({ NoiseFloor(a16) :
          a16 \in { SalesNoVat(a15, m.titled, m.sales_match) :
          a15 \in { DoubleMatch(a14, m.double) :
          a14 \in { DirectSales(a13, m.direct) :
          a13 \in { TienThanhToanRow(a12, m.tien_tt) :
          a12 \in { AfterTaxPatterns(a11, m.after) :
          a11 \in { TravelCategory(a10, m.travel) :
          a10 \in { SalesInvoice(a9, m.is_sales, m.sales_total) :
          a9 \in { EarlyRateInference(a8) :
          a8 \in { ServiceCharge(a7, m.pv) :
          a7 \in { SimpleTax(a6, m.simple_tax) :
          a6 \in { SimplePatterns(a5, m.simple) :
          a5 \in { MultiColPatterns(a4, m.multi) :
          a4 \in { VatPatterns(a3, m.vat) :
          a3 \in { TienHangRow(a2, m.tien_hang) :
          a2 \in { BeforeTaxPatterns(a1, m.pre) :
          a1 \in { FieldCascade(d0, m.fields) } } } } } } } } } } } } } } } } })

\* the statements of the try block from the test of an empty text to the
\* recovery of a total hidden in garbage
BeforeItemFallback(d0, m) ==
    The({ GarbageTotal(b3, m.garbage) :
          b3 \in { ReverseCase(b2) :
          b2 \in { DeriveTotal(b1) :
          b1 \in { BeforeDeriveTotal(d0, m) } } } })

\* line_items = [] until the items are stored after the reconciliation
LineItemsAtFallback(m) == <<>>

\* the record after the fallback of the line items
AfterItemFallback(d0, m) ==
    The({ LineItemFallback(b4, LineItemsAtFallback(m)) : b4 \in { BeforeItemFallback(d0, m) } })

\* the statements of the try block that follow the test of an empty text
TextPath(d0, m) ==
    The({ StoreItems(c4, m.services) :
          c4 \in { OtherRateLabel(c3) :
          c3 \in { LookupCode(c2, m.lookup) :
          c2 \in { GrandTotal(c1, m.grand) :
          c1 \in { SummaryTables(b6, m.summary) :
          b6 \in { RerunTax(b5) :
          b5 \in { AfterItemFallback(d0, m) } } } } } } })

\* the statements after the try block
PostTry(d, has_quan_87) ==
    The({ SellerCleanup(e5, has_quan_87) :
          e5 \in { MoneyCleanup(e4) :
          e4 \in { OtherBucketCleanup(e3) :
          e3 \in { CleanFields(e2) :
          e2 \in { FinalRateInference(e1) :
          e1 \in { TaxFromBuckets(e0) :
          e0 \in { d } } } } } } })

SentinelRecord(d) == [k \in Keys |-> IF k = FILE THEN d[k] ELSE Sentinel]

\* the garbage wrapper 0'}...'}'} of a line gives the total when none is set
HiddenTotal(d, val) == IF Blank(d[TOTAL]) /\ ~Blank(val) THEN [d EXCEPT ![TOTAL] = val] ELSE d

Result(d, items, where, exc) == [data |-> d, line_items |-> items, via |-> where, raised |-> exc]

\* data = {...}: the record an invocation starts from is written out in full
\* and takes nothing from the record of the invocation before
RecordAtEntryKept(previous) == previous

RecordAtEntry(previous) == NewRecord

\* the body of extract_invoice_data after data is created.
\* layer: "text" (text is left after the cleanup), "garbage" (text that the
\* cleanup empties), "empty" (no text), "raises" (the read fails);
\* fallback: the text file beside a path source, "found", "none" or "raises"
ExtractBody(data0, pdf_source, is_path, ocr_available) ==
    CASE pdf_source.layer = "raises" ->
            Result(PostTry(data0, FALSE), <<>>, "end", TRUE)
      [] pdf_source.layer = "empty" ->
            IF ocr_available /\ pdf_source.ocr_text = "text"
            THEN Result(The({ OcrClassify(d2, pdf_source.o.kw) :
                              d2 \in { HdOcr(d1, pdf_source.hd, ocr_available) :
                              d1 \in { MergeOcr(data0, ocr_data) :
                              ocr_data \in { extract_ocr_invoice_fields(pdf_source.o) } } } }),
                        <<>>, "ocr", FALSE)
            ELSE Result(data0, <<>>, "ocr_empty", FALSE)
      [] pdf_source.layer = "garbage" ->
            IF is_path /\ pdf_source.fallback = "found"
            THEN Result(PostTry(TextPath(HiddenTotal(data0, pdf_source.hidden), pdf_source.m), pdf_source.m.quan87),
                        pdf_source.m.services, "end", FALSE)
            ELSE IF is_path /\ pdf_source.fallback = "raises"
            THEN Result(PostTry(HiddenTotal(data0, pdf_source.hidden), FALSE), <<>>, "end", TRUE)
            ELSE Result(SentinelRecord(data0), <<>>, "sentinel", FALSE)
      [] pdf_source.layer = "text" ->
            Result(PostTry(TextPath(HiddenTotal(data0, pdf_source.hidden), pdf_source.m), pdf_source.m.quan87),
                   pdf_source.m.services, "end", FALSE)

extract_invoice_data(pdf_source, is_path, ocr_available) ==
    ExtractBody(NewRecord, pdf_source, is_path, ocr_available)

(***************************************************************************)
(* Inputs of the money helpers.                                            *)
(***************************************************************************)
TokAlphabet == {"0", "1", "5", ".", ",", "x", "-"}

ExampleTokens ==
    { <<"1", ".", "2", "3", "4", ".", "5", "6", "7">>,
      <<"1", ".", "2", "3", "4", ",", "5", "6">>,
      <<"1", ",", "2", "3", "4", ".", "5", "6">>,
      <<"7", "9", ",", "6", "0", "0">>,
      <<"1", "7", ".", "5", "9", "2", ",", "5", "9">>,
      <<" ", "4", "8", "1", ".", "7", "8", "7", " ">> }

Tokens == UNION { [1..n -> TokAlphabet] : n \in 0..MaxTokLen } \cup ExampleTokens

NumDigitSet == {0, 1, 9}

RECURSIVE DigitsToNat(_)
DigitsToNat(f) ==
    IF Len(f) = 0 THEN 0 ELSE 10 * DigitsToNat(SubSeq(f, 1, Len(f) - 1)) + f[Len(f)]

Nums ==
    { DigitsToNat(f) : f \in { g \in UNION { [1..d -> NumDigitSet] : d \in 4..MaxNumDigits } : g[1] # 0 } }
    \cup {1234567, 79600, 1080000}

(***************************************************************************)
(* The batch loop of app.py: classification and rows of one document.      *)
(***************************************************************************)
\* parse_money_str: the rule of the two-digit suffix is written with a doubled
\* backslash in a raw string and matches no amount
parse_money_str(s) ==
    IF s = <<>> THEN 0
    ELSE LET t == Strip(s)
             u == IF Contains(t, ".") /\ Contains(t, ",")
                  THEN IF RFind(t, ",") > RFind(t, ".")
                       THEN SubSeq(t, 1, RFind(t, ",") - 1)
                       ELSE SubSeq(t, 1, RFind(t, ".") - 1)
                  ELSE t
             clean == StripSeparators(u)
         IN IF IntValid(clean) THEN IntValue(clean) ELSE 0

\* the rates of the record that carry a tax, "N/A" when none does
TaxRates(d) ==
    LET rs == (IF ~Blank(d[T0]) THEN <<"0%">> ELSE <<>>)
                \o (IF ~Blank(d[T5]) THEN <<"5%">> ELSE <<>>)
                \o (IF ~Blank(d[T8]) THEN <<"8%">> ELSE <<>>)
                \o (IF ~Blank(d[T10]) THEN <<"10%">> ELSE <<>>)
                \o (IF ~Blank(d[T_KHAC]) THEN <<"Khac">> ELSE <<>>)
    IN IF rs = <<>> THEN <<"N/A">> ELSE rs

RatePercent(rate_str) ==
    CASE rate_str = "5%" -> 5 [] rate_str = "8%" -> 8 [] rate_str = "10%" -> 10
      [] rate_str \in {"0%", "Khac", "N/A"} -> 0

RateColumn(rate_str) ==
    CASE rate_str = "0%" -> T0 [] rate_str = "5%" -> T5 [] rate_str = "8%" -> T8
      [] rate_str = "10%" -> T10

\* calc_amounts_for_rate: <<before_vat, vat_val, total>>
calc_amounts_for_rate(vat_amount, rate_str) ==
    LET vat_val == parse_money_str(vat_amount)
        pct == RatePercent(rate_str)
    IN IF vat_val # 0 /\ pct > 0
       THEN <<PyRound(vat_val * 100, pct), vat_val, PyRound(vat_val * 100, pct) + vat_val>>
       ELSE IF vat_val # 0 THEN <<0, vat_val, vat_val>>
       ELSE <<0, 0, 0>>

Row(file, cat, rate, pre, vat, total) ==
    [file |-> file, category |-> cat, rate |-> rate, pre |-> pre, vat |-> vat, total |-> total]

\* a cell that takes a computed integer when it is not 0
Cell(n, old) == IF n # 0 THEN IntStr(n) ELSE old

\* the row of an invoice of one rate, accounting format
SingleRateRow(file, cat, d, rate) ==
    IF rate = "N/A" THEN Row(file, cat, "", d[PRE], d[TAX], d[TOTAL])
    ELSE LET vat_str == IF rate = "Khac" THEN d[TAX] ELSE d[RateColumn(rate)]
             c == calc_amounts_for_rate(vat_str, rate)
         IN IF Strip(d[PRE]) = <<>>
            THEN Row(file, cat, rate, Cell(c[1], d[PRE]), vat_str, Cell(c[3], d[TOTAL]))
            ELSE Row(file, cat, rate, d[PRE], vat_str, d[TOTAL])

\* one row of an invoice of several rates, accounting format
MultiRateRow(file, cat, d, rate) ==
    IF rate = "Khac" THEN Row(file, cat, rate, d[PRE], d[T_KHAC], d[TOTAL])
    ELSE LET vat_str == d[RateColumn(rate)]
             c == calc_amounts_for_rate(vat_str, rate)
         IN Row(file, cat, rate, Cell(c[1], d[PRE]), Cell(c[2], vat_str), Cell(c[3], d[TOTAL]))

InvoiceRows(file, cat, d, report) ==
    IF report = "business" THEN <<Row(file, cat, "", d[PRE], d[TAX], d[TOTAL])>>
    ELSE IF Len(TaxRates(d)) = 1 THEN <<SingleRateRow(file, cat, d, TaxRates(d)[1])>>
    ELSE [i \in 1..Len(TaxRates(d)) |-> MultiRateRow(file, cat, d, TaxRates(d)[i])]

\* the category a fixed choice of the selector gives
FixedCategory == CAT_HOA_TUOI

\* final_category of app.py
FinalCategory(d, items, selector) ==
    IF selector = "fixed" THEN FixedCategory
    ELSE IF ~Blank(d[CAT]) /\ d[CAT] # CAT_KHAC THEN d[CAT]
    ELSE IF items # <<>> THEN classify_content(JoinNames(items), d[SELLER])
    ELSE classify_content(<<>>, d[SELLER])

\* the classification of main()
MainCategory(d, items) ==
    IF items # <<>> THEN classify_content(JoinNames(items), d[SELLER]) ELSE CAT_KHAC

FILE_ISSUE == "File"

(***************************************************************************)
(* The state of an operation that is not running.                          *)
(***************************************************************************)
NoOcr ==
    [serial |-> <<>>, seller |-> <<>>, inv |-> <<>>, date |-> <<>>, mst |-> <<>>,
     before |-> <<>>, vat |-> <<>>, fuel |-> FALSE, petrolimex |-> FALSE, pct |-> "none",
     total |-> <<>>, words |-> 0, lookup |-> <<>>, cqt |-> <<>>, link |-> <<>>, kw |-> "none"]

NoHd == [inv |-> <<>>, mst |-> <<>>, fails |-> FALSE]

NoFields == [k \in Keys |-> <<>>]

NoAfter == [n |-> 0, toks |-> <<>>]

NoMatch ==
    [fields |-> NoFields, pre |-> <<>>, tien_hang |-> <<>>, vat |-> <<>>,
     multi |-> NoFields, simple |-> NoFields, simple_tax |-> <<>>, pv |-> <<>>,
     is_sales |-> FALSE, sales_total |-> <<>>, travel |-> FALSE, after |-> NoAfter,
     tien_tt |-> <<>>, direct |-> <<>>, double |-> <<>>, titled |-> FALSE,
     sales_match |-> <<>>, garbage |-> <<>>, summary |-> <<>>, grand |-> <<>>,
     lookup |-> <<>>, quan87 |-> FALSE, services |-> <<>>]

\* a document without a text layer that the OCR cannot read either
NoDoc ==
    [layer |-> "empty", ocr_text |-> "blank", hidden |-> <<>>, fallback |-> "none",
     m |-> NoMatch, o |-> NoOcr, hd |-> NoHd]

DocIdle ==
    /\ pc = "idle"
    /\ doc = NoDoc
    /\ srcIsPath = FALSE
    /\ OCR_AVAILABLE = FALSE
    /\ data = NewRecord
    /\ line_items = <<>>
    /\ raised = FALSE
    /\ via = ""

ValIdle ==
    /\ vPc = "idle"
    /\ vData = NewRecord
    /\ issues = <<>>

BatchIdle ==
    /\ loop = "app"
    /\ category_select = "auto"
    /\ report_type = "business"
    /\ files = <<>>
    /\ idx = 1
    /\ all_rows = <<>>
    /\ all_validations = <<>>

(***************************************************************************)
(* The documents of the model.                                             *)
(***************************************************************************)
S_HIGHLANDS == <<"H", "i", "g", "h", "l", "a", "n", "d", "s", " ", "C", "o", "f", "f", "e", "e">>
S_ABC == <<"C", "O", "N", "G", " ", "T", "Y", " ", "T", "N", "H", "H", " ", "A", "B", "C">>
S_KFC_TRAVEL == <<"K", "F", "C", " ", "T", "r", "a", "v", "e", "l", " ", "F", "o", "o", "d">>
S_SHORT == <<"A", "B", "C">>
S_SIGNED == <<"D", "i", "g", "i", "t", "a", "l", "l", "y", " ", "s", "i", "g", "n", "e", "d", " ", "b", "y", " ", "A", "B", "C">>
S_LABELLED == <<"S", "e", "l", "l", "e", "r", ":", " ", "C", "O", "N", "G", " ", "T", "Y", " ", "A", "B", "C">>
N_HOA == <<"b", "o", " ", "h", "o", "a", " ", "t", "u", "o", "i">>
N_XANG == <<"X", "a", "n", "g", " ", "R", "O", "N", "9", "5">>
N_COM == <<"c", "o", "m", " ", "g", "a">>
N_PHI == <<"p", "h", "i", " ", "d", "i", "c", "h", " ", "v", "u">>
D_OK == <<"1", "5", "/", "0", "2", "/", "2", "0", "2", "6">>
D_ISO == <<"2", "0", "2", "6", "-", "0", "2", "-", "1", "5">>
MST_OK == <<"0", "3", "0", "0", "5", "5", "5", "4", "5", "0">>
MST_BAD == <<"0", "3", "0", "0", "5", "5", "5", "4">>
INV_NO == <<"0", "0", "1", "2", "3", "4", "5">>
HIDDEN_TOTAL == <<"2", ",", "9", "5", "0", ",", "0", "0", "0">>

\* an amount as the invoices print it, and as the line items carry it
M(n) == Grouped(n, ".")
ItemAmount(n) == Grouped(n, ",")

Item(nm, n, r) == [name |-> nm, amount |-> ItemAmount(n), tax_rate |-> r]

TextDoc(m) ==
    [layer |-> "text", ocr_text |-> "blank", hidden |-> <<>>, fallback |-> "none",
     m |-> m, o |-> NoOcr, hd |-> NoHd]

ScanDoc(o, hd) ==
    [layer |-> "empty", ocr_text |-> "text", hidden |-> <<>>, fallback |-> "none",
     m |-> NoMatch, o |-> o, hd |-> hd]

WithSeller(s) == [NoFields EXCEPT ![SELLER] = s]

FullFields ==
    [NoFields EXCEPT ![SELLER] = S_ABC, ![INV] = INV_NO, ![DATE] = D_OK, ![MST] = MST_OK]

PreToks == {<<>>, M(500), M(10000), M(1000000)}
VatToks == {<<>>, M(500), M(1000), M(80000), M(100000), M(2000000)}

AfterMatches ==
    { NoAfter,
      [n |-> 1, toks |-> <<M(1080000)>>],
      [n |-> 2, toks |-> <<M(1000000), M(1080000)>>],
      [n |-> 3, toks |-> <<M(2000000), M(160000), M(2160000)>>],
      [n |-> 1, toks |-> <<M(1656000), M(100000), M(1556000), M(124480), M(1680480)>>] }

ItemLists ==
    { <<>>,
      <<Item(N_COM, 1000000, <<"8">>)>>,
      <<Item(N_PHI, 1000000, <<>>)>>,
      <<Item(N_COM, 500000, <<"8">>), Item(N_HOA, 500000, <<"1", "0">>)>> }

\* a total line of one group that carries three numbers or more is also the
\* line of the grand total, which reads its first three numbers
GrandOf(a) == IF a.n = 1 /\ Len(a.toks) >= 3 THEN SubSeq(a.toks, 1, 3) ELSE <<>>

\* amounts under their labels, a total line, line items
LabelDocs ==
    { TextDoc([NoMatch EXCEPT !.fields = FullFields, !.pre = p, !.vat = v, !.after = a,
                              !.grand = GrandOf(a), !.services = it]) :
        p \in PreToks, v \in VatToks, a \in AfterMatches, it \in ItemLists }

BucketMatches ==
    { NoFields, [NoFields EXCEPT ![T8] = M(80000)], [NoFields EXCEPT ![T10] = M(100000)],
      [NoFields EXCEPT ![T0] = <<"0">>, ![T8] = M(80000)] }

SummaryMatches ==
    { <<>>,
      << <<8, M(1000000), M(80000), M(1080000)>> >>,
      << <<10, M(500000), M(50000), <<>>>> >>,
      << <<8, M(1000000), M(80000), M(1080000)>>, <<10, M(500000), M(50000), <<>>>> >> }

\* tax per rate: the columns of the rate rules, the summary table, the grand total
BucketDocs ==
    { TextDoc([NoMatch EXCEPT !.fields = FullFields, !.pre = p, !.vat = v, !.multi = b,
                              !.simple = sb, !.summary = sm, !.grand = g]) :
        p \in {<<>>, M(1000000)}, v \in {<<>>, M(80000), <<"1", "0">>}, b \in BucketMatches,
        sb \in {NoFields, [NoFields EXCEPT ![T5] = M(50000)]},
        sm \in SummaryMatches,
        g \in {<<>>, <<M(1500000), M(130000), M(1630000)>>} }

\* sales invoices and the rows of several columns
SalesDocs ==
    { TextDoc([NoMatch EXCEPT !.fields = FullFields, !.pre = p, !.is_sales = s, !.titled = s,
                              !.sales_total = st, !.direct = ds, !.double = db,
                              !.tien_hang = th, !.tien_tt = tt, !.simple_tax = sx]) :
        p \in {<<>>, M(1000000)}, s \in BOOLEAN, st \in {<<>>, M(5400000)},
        ds \in {<<>>, M(2289962)}, db \in {<<>>, <<M(219907), M(17593)>>},
        th \in {<<>>, <<<<"0">>, M(185185), <<"0">>>>},
        tt \in {<<>>, <<<<"0">>, M(200000), <<"0">>>>},
        sx \in {<<>>, M(17593)} }

Sellers == {<<>>, S_HIGHLANDS, S_ABC, S_KFC_TRAVEL, S_SHORT, S_SIGNED, S_LABELLED}

\* the seller and what classification reads
SellerDocs ==
    { TextDoc([NoMatch EXCEPT !.fields = [FullFields EXCEPT ![SELLER] = s], !.travel = t,
                              !.quan87 = q, !.pre = M(1000000), !.pv = pv,
                              !.services = it]) :
        s \in Sellers, t \in BOOLEAN, q \in BOOLEAN, pv \in {<<>>, M(400507)},
        it \in {<<>>, <<Item(N_HOA, 1000000, <<>>)>>, <<Item(N_XANG, 1000000, <<>>)>>} }

OcrMatches ==
    { [NoOcr EXCEPT !.seller = s, !.before = b, !.vat = v, !.total = t, !.fuel = f[1],
                    !.petrolimex = f[2], !.pct = pc8, !.words = w, !.kw = f[3]] :
        s \in {<<>>, S_ABC},
        b \in {<<>>, <<M(1000000)>>, <<<<"2", "0", "2", "5">>, M(462963)>>, <<M(500)>>},
        v \in {<<>>, M(100000), M(80000)},
        t \in {<<>>, <<M(1100000)>>, <<M(500000)>>},
        f \in {<<FALSE, FALSE, "none">>, <<FALSE, FALSE, "food">>, <<TRUE, FALSE, "fuel">>,
               <<TRUE, TRUE, "fuel">>},
        pc8 \in {"none", "8", "10"},
        w \in {0, 700000} }

HdResults == { NoHd, [NoHd EXCEPT !.inv = INV_NO, !.mst = MST_OK], [NoHd EXCEPT !.fails = TRUE] }

\* documents without a text layer
ScanDocs ==
    { ScanDoc(o, hd) : o \in OcrMatches, hd \in {NoHd} }
      \cup { ScanDoc([NoOcr EXCEPT !.seller = S_ABC, !.inv = i, !.before = <<M(1000000)>>], hd) :
               i \in {<<>>, INV_NO}, hd \in HdResults }
      \cup { NoDoc }

\* documents whose read fails or whose text the cleanup empties
EdgeDocs ==
    { [layer |-> l, ocr_text |-> "blank", hidden |-> h, fallback |-> fb,
       m |-> [NoMatch EXCEPT !.fields = FullFields, !.pre = M(1000000)], o |-> NoOcr, hd |-> NoHd] :
        l \in {"raises", "garbage"}, h \in {<<>>, HIDDEN_TOTAL},
        fb \in {"none", "found", "raises"} }
      \cup { [TextDoc(NoMatch) EXCEPT !.hidden = HIDDEN_TOTAL], TextDoc(NoMatch) }

Docs == LabelDocs \cup BucketDocs \cup SalesDocs \cup SellerDocs \cup ScanDocs \cup EdgeDocs

(***************************************************************************)
(* The state of the routing that is not running.                           *)
(***************************************************************************)
NoScan == [convert300 |-> "ok", images |-> <<>>]

NoHdPass == [convert600 |-> "none", crop_inv |-> <<"blank", "blank">>, crop_mst |-> <<"blank", "blank">>]

RouteDoc(pages, open_fails, fb, scan, inv1, mst1, hd) ==
    [pages |-> pages, open_fails |-> open_fails, fallback |-> fb, scan |-> scan,
     inv1 |-> inv1, mst1 |-> mst1, hd |-> hd]

RouteIdle ==
    /\ rPc = "idle"
    /\ rSrc = RouteDoc(<<>>, FALSE, "none", NoScan, FALSE, FALSE, NoHdPass)
    /\ rIsPath = FALSE
    /\ rText = <<>>
    /\ rOcrHasText = FALSE
    /\ rInvBlank = TRUE
    /\ rMstBlank = TRUE
    /\ rLog = <<>>
    /\ rOut = ""

(***************************************************************************)
(* extract_services_from_text on a text of one line.  The tables are       *)
(* written without diacritics, as every text of the model is.              *)
(***************************************************************************)
COMMON_UNITS ==
    { <<"B", "A", "O">>, <<"B", "I", "C", "H">>, <<"B", "O">>, <<"C", "A", "I">>,
      <<"C", "A", "P">>, <<"C", "A", "Y">>, <<"C", "H", "A", "I">>, <<"C", "H", "A", "U">>,
      <<"C", "H", "E", "N">>, <<"C", "H", "I", "E", "C">>, <<"C", "H", "U", "Y", "E", "N">>,
      <<"C", "O", "C">>, <<"C", "O", "N">>, <<"C", "U", "O", "N">>, <<"D", "I", "A">>,
      <<"D", "O", "I">>, <<"G", "I", "O">>, <<"G", "M">>, <<"G", "O", "I">>,
      <<"G", "R", "A", "M">>, <<"H", "O", "P">>, <<"K", "E">>, <<"K", "G">>, <<"K", "I", "M">>,
      <<"K", "W">>, <<"K", "W", "H">>, <<"L", "A", "N">>, <<"L", "I", "T">>, <<"L", "O", "N">>,
      <<"L", "U", "O", "T">>, <<"L", "Y">>, <<"M">>, <<"M", "2">>, <<"M", "3">>, <<"M", "E", "T">>,
      <<"M", "O", "N">>, <<"N", "A", "M">>, <<"N", "G", "A", "Y">>, <<"N", "G", "U", "O", "I">>,
      <<"N", "O", "I">>, <<"P", "C", "S">>, <<"P", "H", "A", "N">>, <<"P", "H", "U", "T">>,
      <<"Q", "U", "Y", "E", "N">>, <<"R", "A", "M">>, <<"S", "O">>, <<"S", "U", "A", "T">>,
      <<"T", "A", "M">>, <<"T", "H", "A", "N", "G">>, <<"T", "H", "A", "N", "H">>,
      <<"T", "H", "O">>, <<"T", "H", "U", "N", "G">>, <<"T", "O">>, <<"V", "I">>,
      <<"V", "I", "E", "N">> }

THANH == <<"T", "H", "A", "N", "H">>

JUNK_TEXT_KEYWORDS ==
    { <<"s", "t", "t">>, <<"t", "e", "n", " ", "h", "a", "n", "g">>,
      <<"d", "o", "n", " ", "v", "i", " ", "t", "i", "n", "h">>,
      <<"s", "o", " ", "l", "u", "o", "n", "g">>,
      <<"t", "h", "a", "n", "h", " ", "t", "i", "e", "n">>,
      <<"n", "g", "u", "o", "i", " ", "m", "u", "a">>, <<"k", "y", " ", "b", "o", "i">>,
      <<"t", "r", "a", "n", "g">>, <<"t", "h", "u", "e", " ", "s", "u", "a", "t">>,
      <<"c", "o", "n", "g", " ", "t", "i", "e", "n">>,
      <<"t", "o", "n", "g", " ", "c", "o", "n", "g">>, <<"b", "a", "n", "g", " ", "c", "h", "u">>,
      <<"t", "i", "e", "n", " ", "t", "h", "u", "e">>, <<"s", "e", "r", "i", "a", "l">>,
      <<"k", "y", " ", "h", "i", "e", "u">>, <<"m", "a", "u", " ", "s", "o">>, <<"v", "n", "d">>,
      <<"c", "h", "u", "y", "e", "n", " ", "k", "h", "o", "a", "n">>,
      <<"v", "a", "t", " ", "i", "n", "v", "o", "i", "c", "e">>,
      <<"d", "o", "n", " ", "v", "i", " ", "b", "a", "n">>,
      <<"m", "a", " ", "t", "r", "a", " ", "c", "u", "u">>,
      <<"v", "a", "t", ")", " ", "r", "a", "t", "e", ")">>,
      <<"v", "a", "t", " ", "r", "a", "t", "e">>, <<"g", "t", "g", "t">>,
      <<"r", "a", "t", "e", ")">>, <<"a", "m", "o", "u", "n", "t", ")">>,
      <<"r", "a", "t", "e", "%", ")">>, <<"t", "e", "n", " ", "h">>,
      <<"d", "o", " ", "n", " ", "v">>, <<"s", " ", "o", " ", "l">>,
      <<"v", "i", " ", "t", "i", "n", "h">>, <<"s", "a", "u", " ", "t", "h", "u", "e">>,
      <<"c", "h", "i", "e", "t", " ", "k", "h", "a", "u">>, <<"a", " ", "b", " ", "c">> }

SURCHARGE_KEYWORDS ==
    { <<"p", "h", "u", " ", "t", "h", "u">>,
      <<"p", "h", "i", " ", "d", "i", "c", "h", " ", "v", "u">>,
      <<"p", "h", "i", " ", "p", "h", "u", "c", " ", "v", "u">>,
      <<"s", "e", "r", "v", "i", "c", "e", " ", "c", "h", "a", "r", "g", "e">>,
      <<"s", "u", "r", "c", "h", "a", "r", "g", "e">> }

\* prefixes_to_remove, in the order of the list
PrefixesToRemove ==
    << <<"G", "T", "G", "T">>, <<"V", "A", "T", ")", " ", "r", "a", "t", "e", ")">>,
      <<"V", "A", "T", " ", "r", "a", "t", "e">>, <<"R", "a", "t", "e", ")">>,
      <<"A", " ", "B", " ", "C">>, <<"k", "h", "a", "u">>, <<"K", "H", "A", "U">>,
      <<"P", "h", "a", "n", ")">>, <<"P", "h", "a", "n", ")">>, <<"P", "H", "A", "N", ")">>,
      <<"P", "H", "A", "N", ")">>, <<"D", "V", "T", ":">>, <<"D", "V", "T">> >>

\* price_keywords
PriceKeywords ==
    { <<"g", "i", "a">>, <<"m", "e", "n", "h">>, <<"n", "o">>, <<"n", "o", ".">>,
      <<"p", "h", "o", "n", "g">>, <<"r", "o", "o", "m">>, <<"s", "o">> }

(***************************************************************************)
(* The state of the item extraction that is not running.                   *)
(***************************************************************************)
NoItemLine == [stt |-> <<>>, sep |-> <<>>, words |-> <<>>, unit |-> <<>>, nums |-> <<>>, tail |-> <<>>]

ServiceIdle ==
    /\ sPc = "idle"
    /\ sSrc = NoItemLine
    /\ sText = <<>>
    /\ sItems = <<>>

(***************************************************************************)
(* What the process keeps between two documents: the tables of the module  *)
(* and the place of the loop.                                              *)
(***************************************************************************)
ModuleTables ==
    [CATEGORY_KEYWORDS |-> CATEGORY_KEYWORDS, FB_BRANDS |-> FB_BRANDS,
     COMMON_UNITS |-> COMMON_UNITS, JUNK_TEXT_KEYWORDS |-> JUNK_TEXT_KEYWORDS,
     SURCHARGE_KEYWORDS |-> SURCHARGE_KEYWORDS]

IndepIdle ==
    /\ iPc = "loop"
    /\ gTables = ModuleTables

(***************************************************************************)
(* The state of the tax-code cascade that is not running.                  *)
(***************************************************************************)
MstIdle ==
    /\ tPc = "idle"
    /\ tMst = <<>>
    /\ tBy = ""
    /\ tSeen = <<>>

(***************************************************************************)
(* The state of the pattern cascade that is not running.                   *)
(***************************************************************************)
\* the fields the cascade of patterns is followed for
CascadeFields == {CQT, LOOKUP, T0, T5, T8, T10}

CascIdle ==
    /\ kPc = "idle"
    /\ kDoc = <<>>
    /\ kData = NewRecord
    /\ kBy = [f \in CascadeFields |-> ""]
    /\ kIdx = 0

(***************************************************************************)
(* The state of the aggregation of the item taxes that is not running.     *)
(***************************************************************************)
AggrIdle ==
    /\ aPc = "idle"
    /\ aEntry = NewRecord
    /\ aData = NewRecord
    /\ aItems = <<>>
    /\ aIdx = 1

(***************************************************************************)
(* The state of the parser of amounts in words that is not running.        *)
(***************************************************************************)
WordsIdle ==
    /\ wPc = "idle"
    /\ wTokens = <<>>
    /\ wPos = 1
    /\ wResult = 0
    /\ wHundreds = 0
    /\ wPending = 0

(***************************************************************************)
(* The state of the loop over the lines of a text that is not running.     *)
(***************************************************************************)
MergeIdle ==
    /\ nPc = "idle"
    /\ nText = <<>>
    /\ nLines = <<>>
    /\ nIdx = 1
    /\ nItems = <<>>
    /\ nUsed = <<>>

ExtIdle == RouteIdle /\ ServiceIdle /\ IndepIdle /\ MstIdle /\ CascIdle /\ AggrIdle /\ WordsIdle /\ MergeIdle

RouteRestIdle == ServiceIdle /\ IndepIdle /\ MstIdle /\ CascIdle /\ AggrIdle /\ WordsIdle /\ MergeIdle

ServiceRestIdle == RouteIdle /\ IndepIdle /\ MstIdle /\ CascIdle /\ AggrIdle /\ WordsIdle /\ MergeIdle

IndepRestIdle == RouteIdle /\ ServiceIdle /\ MstIdle /\ CascIdle /\ AggrIdle /\ WordsIdle /\ MergeIdle

MstRestIdle == RouteIdle /\ ServiceIdle /\ IndepIdle /\ CascIdle /\ AggrIdle /\ WordsIdle /\ MergeIdle

CascRestIdle == RouteIdle /\ ServiceIdle /\ IndepIdle /\ MstIdle /\ AggrIdle /\ WordsIdle /\ MergeIdle

AggrRestIdle == RouteIdle /\ ServiceIdle /\ IndepIdle /\ MstIdle /\ CascIdle /\ WordsIdle /\ MergeIdle

WordsRestIdle == RouteIdle /\ ServiceIdle /\ IndepIdle /\ MstIdle /\ CascIdle /\ AggrIdle /\ MergeIdle

MergeRestIdle == RouteIdle /\ ServiceIdle /\ IndepIdle /\ MstIdle /\ CascIdle /\ AggrIdle /\ WordsIdle

(***************************************************************************)
(* The money helpers as operations.                                        *)
(***************************************************************************)
MoneyIdle ==
    /\ mPc = "idle"
    /\ mTok = <<>>
    /\ mParsed = NoneVal
    /\ mParsedIn = 0
    /\ mNum = 0
    /\ mStr = <<>>
    /\ mStrIn = <<>>
    /\ mBack = NoneVal
    /\ mBackIn = 0

MoneyInit == MoneyIdle /\ DocIdle /\ ValIdle /\ BatchIdle /\ ExtIdle

CallParseMoney ==
    /\ mPc = "idle"
    /\ \E t \in Tokens :
        /\ mTok' = t
        /\ mParsed' = parse_money(t)
        /\ mParsedIn' = ParseMoneyIn(t)
    /\ mPc' = "parsed"
    /\ UNCHANGED <<mNum, mStr, mStrIn, mBack, mBackIn, docVars, valVars, batchVars, extVars>>

CallFormatMoney ==
    /\ mPc = "idle"
    /\ \E n \in Nums :
        /\ mNum' = n
        /\ mStr' = format_money(n)
        /\ mStrIn' = FormatMoneyIn(n)
    /\ mPc' = "formatted"
    /\ UNCHANGED <<mTok, mParsed, mParsedIn, mBack, mBackIn, docVars, valVars, batchVars, extVars>>

CallParseBack ==
    /\ mPc = "formatted"
    /\ mBack' = parse_money(mStr)
    /\ mBackIn' = ParseMoneyIn(mStrIn)
    /\ mPc' = "reparsed"
    /\ UNCHANGED <<mTok, mParsed, mParsedIn, mNum, mStr, mStrIn, docVars, valVars, batchVars, extVars>>

MoneyNext == CallParseMoney \/ CallFormatMoney \/ CallParseBack

MoneySpec == MoneyInit /\ [][MoneyNext]_vars

(***************************************************************************)
(* Claims about the money helpers.                                         *)
(***************************************************************************)
\* s is the decimal numeral of n grouped by thousands with sep
GroupedBy(s, n, sep) ==
    /\ SelectSeq(s, LAMBDA c : c # sep) = NatStr(n)
    /\ \A i \in 1..Len(s) : (s[i] = sep) <=> ((Len(s) - i + 1) % 4 = 0)

\* C6 as stated: for every n >= 1000 parse(format(n)) = n for both pairs, and
\* both formatters group the digits by thousands with the dot.
C6_RoundTripDotBoth ==
    (mPc = "reparsed" /\ mNum >= 1000) =>
        /\ mBack = Some(mNum)
        /\ mBackIn = mNum
        /\ GroupedBy(mStr, mNum, ".")
        /\ GroupedBy(mStrIn, mNum, ".")

\* C6 amended: for every n >= 1000 parse(format(n)) = n for both pairs; the
\* formatter nested in extract_invoice_data groups the digits by thousands with
\* the dot, the module-level format_money groups them with the comma.
C6_RoundTrip ==
    (mPc = "reparsed" /\ mNum >= 1000) =>
        /\ mBack = Some(mNum)
        /\ mBackIn = mNum
        /\ GroupedBy(mStr, mNum, ",")
        /\ GroupedBy(mStrIn, mNum, ".")

C6_Witness ==
    /\ mPc = "reparsed"
    /\ mNum = 1234567
    /\ mStrIn = <<"1", ".", "2", "3", "4", ".", "5", "6", "7">>
    /\ mBackIn = 1234567

\* the separators of a token, and the position of the last one
IsSep(c) == c \in {".", ","}

LastSepPos(s) == CHOOSE i \in 1..Len(s) : IsSep(s[i]) /\ \A j \in (i+1)..Len(s) : ~IsSep(s[j])

\* the part of a stripped token that the resolution rule keeps
KeptPart(s) ==
    IF (\E i \in 1..Len(s) : s[i] = ".") /\ (\E i \in 1..Len(s) : s[i] = ",")
    THEN SubSeq(s, 1, LastSepPos(s) - 1)
    ELSE IF /\ Len(s) >= 3
            /\ IsSep(s[Len(s) - 2])
            /\ s[Len(s) - 1] \in Digits
            /\ s[Len(s)] \in Digits
         THEN SubSeq(s, 1, Len(s) - 3)
         ELSE s

KeptDigits(s) == SelectSeq(KeptPart(s), LAMBDA c : ~IsSep(c))

DocInit ==
    /\ pc = "idle"
    /\ doc = NoDoc
    /\ srcIsPath = FALSE
    /\ OCR_AVAILABLE \in BOOLEAN
    /\ data = NewRecord
    /\ line_items = <<>>
    /\ raised = FALSE
    /\ via = ""
    /\ MoneyIdle /\ ValIdle /\ BatchIdle /\ ExtIdle

CallExtract ==
    /\ pc = "idle"
    /\ \E d \in Docs, p \in BOOLEAN :
        \E r \in {extract_invoice_data(d, p, OCR_AVAILABLE)} :
           /\ doc' = d
           /\ srcIsPath' = p
           /\ data' = r.data
           /\ line_items' = r.line_items
           /\ raised' = r.raised
           /\ via' = r.via
    /\ pc' = "returned"
    /\ UNCHANGED <<OCR_AVAILABLE, moneyVars, valVars, batchVars, extVars>>

DocNext == CallExtract

DocSpec == DocInit /\ [][DocNext]_vars

(***************************************************************************)
(* Claims about extract_invoice_data.                                      *)
(***************************************************************************)
\* the three amounts of the returned record
Amounts == {PRE, TAX, TOTAL}

\* an amount the document prints above the noise threshold
Printed(t) == t # <<>> /\ ParseMoneyIn(t) >= NoiseThreshold

\* the total of a total line that carries one number
PrintedTotal(d) == IF d.m.after.n = 1 THEN d.m.after.toks[1] ELSE <<>>

\* a text document whose only amounts stand under the labels of the amount
\* before tax, of the tax and of the total
LabelsOnly(d) ==
    /\ d.layer = "text"
    /\ d.hidden = <<>>
    /\ d.m.after.n <= 1
    /\ Len(d.m.after.toks) <= 1
    /\ d.m = [NoMatch EXCEPT !.fields = d.m.fields, !.pre = d.m.pre, !.vat = d.m.vat,
                              !.after = d.m.after]
    /\ \A k \in MoneyKeys \cup BucketKeys : d.m.fields[k] = <<>>

\* C1: when the text layer yields no text and the OCR yields no text or is not
\* available, every field of the returned record but the file name is the
\* sentinel and the list of line items is empty.
C1_UnreadableIsSentinel ==
    (pc = "returned" /\ doc.layer = "empty" /\ (doc.ocr_text = "blank" \/ ~OCR_AVAILABLE)) =>
        /\ \A k \in Keys \ {FILE} : data[k] = Sentinel
        /\ line_items = <<>>

\* C2: when exactly two of the amount before tax, the tax and the total were
\* extracted and the third is blank, the returned record carries all three and
\* total = amount before tax + tax, whichever of the three was missing.
C2_ReconciliationIdentity ==
    (pc = "returned" /\ LabelsOnly(doc)) =>
        LET p == doc.m.pre
            v == doc.m.vat
            t == PrintedTotal(doc)
        IN (\/ Printed(p) /\ Printed(v) /\ t = <<>>
            \/ Printed(p) /\ v = <<>> /\ Printed(t)
            \/ p = <<>> /\ Printed(v) /\ Printed(t)) =>
               /\ \A k \in Amounts : ~Blank(data[k])
               /\ ParseMoneyIn(data[TOTAL]) = ParseMoneyIn(data[PRE]) + ParseMoneyIn(data[TAX])

\* no rule of the document reads a tax of one rate
NoBucketExtracted(d) ==
    /\ d.m.multi = NoFields
    /\ d.m.simple = NoFields
    /\ d.m.simple_tax = <<>>
    /\ d.m.summary = <<>>
    /\ \A k \in BucketKeys : d.m.fields[k] = <<>>
    /\ \A i \in 1..Len(d.m.services) : d.m.services[i].tax_rate = <<>>
    /\ d.o.pct = "none"
    /\ ~d.o.fuel

\* C3: when the returned amount before tax and tax are known, the document
\* gave no tax of one rate, and round(tax / amount before tax * 100) is one of
\* 0, 5, 8, 10, the column of that rate carries the tax and every other column
\* of a rate, the column of the other rates included, is blank.
C3_RateInference ==
    (pc = "returned" /\ ~raised /\ NoBucketExtracted(doc)) =>
        LET p == ParseMoneyIn(data[PRE])
            t == ParseMoneyIn(data[TAX])
        IN (data[PRE] # Sentinel /\ p > 0 /\ t > 0 /\ PyRound(t * 100, p) \in Rates) =>
               /\ data[RateKey(PyRound(t * 100, p))] = data[TAX]
               /\ \A k \in BucketKeys \ {RateKey(PyRound(t * 100, p))} : Blank(data[k])

\* C4: in every returned record each of the amount before tax, the tax and the
\* total is blank (or the sentinel of an unreadable document) or is >= 1000.
C4_NoiseFloor ==
    pc = "returned" =>
        \A k \in Amounts :
            \/ Blank(data[k])
            \/ data[k] = Sentinel
            \/ ParseMoneyIn(data[k]) >= NoiseThreshold

\* no rule of the document reads an amount
NoAmountFound(d) ==
    /\ d.layer = "text"
    /\ d.hidden = <<>>
    /\ d.m = [NoMatch EXCEPT !.fields = d.m.fields, !.travel = d.m.travel,
                              !.quan87 = d.m.quan87, !.lookup = d.m.lookup]
    /\ \A k \in MoneyKeys \cup BucketKeys : d.m.fields[k] = <<>>

\* C5: when the text gives no amount before tax, no tax and no total, the three
\* fields of the returned record are blank; and no returned record carries the
\* value 0 as amount before tax or as total.
C5_MissingStaysBlank ==
    pc = "returned" =>
        /\ NoAmountFound(doc) => \A k \in Amounts : data[k] = <<>>
        /\ data[PRE] # <<"0">>
        /\ data[TOTAL] # <<"0">>

(***************************************************************************)
(* validate_invoice_data as an operation.                                  *)
(***************************************************************************)
D_SHORT_YEAR == <<"1", "5", "/", "0", "2", "/", "2", "6">>
MST_BRANCH == <<"0", "3", "0", "0", "5", "5", "5", "4", "5", "0", "-", "0", "0", "1">>
MST_LETTER == <<"0", "3", "0", "0", "5", "X", "5", "4", "5", "0">>
LINK_URL == <<"h", "t", "t", "p", "s", ":", "/", "/", "h", "d", ".", "v", "n">>
LOOKUP_CODE == <<"A", "B", "1", "2", "3">>
SERIAL_CODE == <<"1", "C", "2", "6", "T", "A", "A">>

\* the records validation is called on
ValRecords ==
    { [NewRecord EXCEPT ![SELLER] = s, ![INV] = i, ![DATE] = dt, ![PRE] = p, ![TOTAL] = t,
                        ![MST] = ms, ![LINK] = l[1], ![LOOKUP] = l[2], ![SERIAL] = sr] :
        s \in {<<>>, S_SHORT, S_ABC, <<" ", " ">> \o S_SHORT \o <<" ">>},
        i \in {<<>>, INV_NO},
        dt \in {<<>>, D_OK, D_ISO, D_SHORT_YEAR},
        p \in {<<>>, <<"0">>, M(1000000), Sentinel},
        t \in {<<>>, <<"0">>, M(900000), M(1080000)},
        ms \in {<<>>, MST_OK, MST_BAD, MST_BRANCH, MST_LETTER},
        l \in {<< <<>>, <<>> >>, <<LINK_URL, <<>>>>, << <<>>, LOOKUP_CODE>>, <<LINK_URL, LOOKUP_CODE>>},
        sr \in {<<>>, SERIAL_CODE} }

ValidateInit ==
    /\ vPc = "idle"
    /\ vData = NewRecord
    /\ issues = <<>>
    /\ MoneyIdle /\ DocIdle /\ BatchIdle /\ ExtIdle

CallValidate ==
    /\ vPc = "idle"
    /\ \E d \in ValRecords :
        /\ vData' = d
        /\ issues' = validate_invoice_data(d)
    /\ vPc' = "validated"
    /\ UNCHANGED <<moneyVars, docVars, batchVars, extVars>>

ValidateNext == CallValidate

ValidateSpec == ValidateInit /\ [][ValidateNext]_vars

(***************************************************************************)
(* Claims about validate_invoice_data.                                     *)
(***************************************************************************)
\* the list of issues reports kind for field f with severity sev
Reported(f, sev, kind) == \E i \in 1..Len(issues) : issues[i] = Issue(f, sev, kind)

ErrorIssues == { i \in 1..Len(issues) : issues[i].severity = "error" }

\* the rules that both statements of C8 share
C8_SharedRules ==
    /\ Reported(SELLER, "error", "missing") <=> Len(Strip(vData[SELLER])) < 5
    /\ Reported(INV, "error", "missing") <=> Strip(vData[INV]) = <<>>
    /\ Reported(DATE, "error", "missing") <=> Strip(vData[DATE]) = <<>>
    /\ Reported(PRE, "error", "zero") <=> ValidateParseMoney(vData[PRE]) = 0
    /\ Reported(TOTAL, "error", "zero") <=> ValidateParseMoney(vData[TOTAL]) = 0
    /\ Reported(MST, "warning", "missing") <=> Strip(vData[MST]) = <<>>
    /\ Reported(MST, "warning", "format")
           <=> (Strip(vData[MST]) # <<>> /\ ~MstFormatOk(Strip(vData[MST])))
    /\ Reported(LINK, "warning", "missing") <=> Strip(vData[LINK]) = <<>>
    /\ Reported(LOOKUP, "warning", "missing") <=> Strip(vData[LOOKUP]) = <<>>
    /\ Reported(SERIAL, "warning", "missing") <=> Strip(vData[SERIAL]) = <<>>
    /\ Reported(TOTAL, "warning", "less")
           <=> (/\ ValidateParseMoney(vData[PRE]) > 0
                /\ ValidateParseMoney(vData[TOTAL]) > 0
                /\ ValidateParseMoney(vData[TOTAL]) < ValidateParseMoney(vData[PRE]))
    /\ (Strip(vData[SELLER]) = <<>> /\ Strip(vData[INV]) = <<>>
            /\ ValidateParseMoney(vData[TOTAL]) = 0)
           => Cardinality({ issues[i].field : i \in ErrorIssues }) >= 3

MalformedDate == Strip(vData[DATE]) # <<>> /\ ~DateFormatOk(Strip(vData[DATE]))

\* C8 as stated: a short or missing seller, a missing invoice number, a missing
\* or malformed date, a zero or blank amount before tax and a zero or blank
\* total are reported as errors; a missing or malformed tax code, a missing
\* link, a missing lookup code, a missing serial and a total below the amount
\* before tax as warnings; a record with blank seller, blank invoice number and
\* zero total yields at least three distinct errors.
C8_SeveritiesAsStated ==
    vPc = "validated" =>
        /\ C8_SharedRules
        /\ Reported(DATE, "error", "format") <=> MalformedDate
        /\ \A i \in 1..Len(issues) :
               issues[i].severity = "error"
                   <=> issues[i] \in { Issue(SELLER, "error", "missing"),
                                       Issue(INV, "error", "missing"),
                                       Issue(DATE, "error", "missing"),
                                       Issue(DATE, "error", "format"),
                                       Issue(PRE, "error", "zero"),
                                       Issue(TOTAL, "error", "zero") }

\* C8 amended: as stated, except that a malformed date (a date that is present
\* but is not d/m/yyyy) is reported as a warning; only a missing date is an
\* error.  Every issue is an error or a warning.
C8_Severities ==
    vPc = "validated" =>
        /\ C8_SharedRules
        /\ Reported(DATE, "warning", "format") <=> MalformedDate
        /\ \A i \in 1..Len(issues) :
               /\ issues[i].severity \in {"error", "warning"}
               /\ issues[i].severity = "error"
                      <=> issues[i] \in { Issue(SELLER, "error", "missing"),
                                          Issue(INV, "error", "missing"),
                                          Issue(DATE, "error", "missing"),
                                          Issue(PRE, "error", "zero"),
                                          Issue(TOTAL, "error", "zero") }

C8_Witness ==
    /\ vPc = "validated"
    /\ vData[SELLER] = <<>>
    /\ vData[INV] = <<>>
    /\ vData[TOTAL] = <<"0">>
    /\ vData[DATE] = D_ISO
    /\ vData[MST] = MST_BAD
    /\ Cardinality(ErrorIssues) >= 3
    /\ Reported(DATE, "warning", "format")
    /\ Reported(MST, "warning", "format")

(***************************************************************************)
(* The batch loops: the loop over the uploaded files of app.py and the     *)
(* loop over the PDF files of main().                                      *)
(***************************************************************************)
MaxBatch == 2

\* the documents of a batch
BatchDocs ==
    { TextDoc([NoMatch EXCEPT !.fields = [FullFields EXCEPT ![SELLER] = S_HIGHLANDS],
                              !.pre = M(1000000), !.vat = M(80000)]),
      TextDoc([NoMatch EXCEPT !.fields = [FullFields EXCEPT ![SELLER] = S_HIGHLANDS],
                              !.pre = M(1000000),
                              !.services = <<Item(N_HOA, 1000000, <<>>)>>]),
      TextDoc([NoMatch EXCEPT !.fields = [FullFields EXCEPT ![SELLER] = S_KFC_TRAVEL],
                              !.pre = M(1000000)]),
      TextDoc([NoMatch EXCEPT !.fields = FullFields, !.pre = M(1000000),
                              !.services = <<Item(N_XANG, 1000000, <<>>)>>]),
      TextDoc([NoMatch EXCEPT !.fields = FullFields,
                              !.multi = [NoFields EXCEPT ![T0] = <<"0">>, ![T8] = M(80000)]]),
      [layer |-> "raises", ocr_text |-> "blank", hidden |-> <<>>, fallback |-> "none",
       m |-> [NoMatch EXCEPT !.fields = FullFields, !.pre = M(1000000)], o |-> NoOcr,
       hd |-> NoHd],
      ScanDoc([NoOcr EXCEPT !.seller = S_HIGHLANDS, !.vat = M(80000), !.pct = "8"], NoHd),
      NoDoc }

\* an uploaded file: its document, and whether seek(0) on it raises
BatchFiles == { [doc |-> d, seek_fails |-> b] : d \in BatchDocs, b \in BOOLEAN }

Batches == UNION { [1..n -> BatchFiles] : n \in 1..MaxBatch }

BatchInit ==
    /\ loop \in {"app", "main"}
    /\ category_select \in {"auto", "fixed"}
    /\ report_type \in {"business", "accounting"}
    /\ loop = "main" => (category_select = "auto" /\ report_type = "business")
    /\ files \in Batches
    /\ loop = "main" => \A i \in 1..Len(files) : ~files[i].seek_fails
    /\ idx = 1
    /\ all_rows = <<>>
    /\ all_validations = <<>>
    /\ pc = "idle"
    /\ doc = NoDoc
    /\ srcIsPath = FALSE
    /\ OCR_AVAILABLE \in BOOLEAN
    /\ data = NewRecord
    /\ line_items = <<>>
    /\ raised = FALSE
    /\ via = ""
    /\ MoneyIdle /\ ValIdle /\ ExtIdle

\* one turn of a loop whose try body raises at its end, after the entry of
\* the validator and the rows are appended
AppProcessFileRaisesLate ==
    /\ loop = "app"
    /\ idx <= Len(files)
    /\ \E r \in {extract_invoice_data(files[idx].doc, FALSE, OCR_AVAILABLE)} :
       \E final_category \in {FinalCategory(r.data, r.line_items, category_select)} :
           /\ all_validations' =
                  Append(all_validations, [file |-> idx, issues |-> validate_invoice_data(r.data)])
                  \o (IF files[idx].seek_fails
                      THEN <<[file |-> idx, issues |-> <<Issue(FILE_ISSUE, "error", "exception")>>]>>
                      ELSE <<>>)
           /\ all_rows' = all_rows \o InvoiceRows(idx, final_category, r.data, report_type)
    /\ idx' = idx + 1
    /\ UNCHANGED <<loop, category_select, report_type, files, moneyVars, docVars, valVars, extVars>>

\* one turn of the loop of app.py: the body of the try and its handler
AppProcessFile ==
    /\ loop = "app"
    /\ idx <= Len(files)
    /\ \E r \in {extract_invoice_data(files[idx].doc, FALSE, OCR_AVAILABLE)} :
          IF files[idx].seek_fails
          THEN /\ all_validations' =
                      Append(all_validations,
                             [file |-> idx, issues |-> <<Issue(FILE_ISSUE, "error", "exception")>>])
               /\ all_rows' = all_rows
          ELSE \E final_category \in {FinalCategory(r.data, r.line_items, category_select)} :
               /\ all_validations' =
                      Append(all_validations,
                             [file |-> idx, issues |-> validate_invoice_data(r.data)])
               /\ all_rows' = all_rows \o InvoiceRows(idx, final_category, r.data, report_type)
    /\ idx' = idx + 1
    /\ UNCHANGED <<loop, category_select, report_type, files, moneyVars, docVars, valVars, extVars>>

\* one turn of the loop of main()
MainProcessPdf ==
    /\ loop = "main"
    /\ idx <= Len(files)
    /\ \E r \in {extract_invoice_data(files[idx].doc, TRUE, OCR_AVAILABLE)} :
          all_rows' = Append(all_rows,
                             Row(idx, MainCategory(r.data, r.line_items), "",
                                 r.data[PRE], r.data[TAX], r.data[TOTAL]))
    /\ idx' = idx + 1
    /\ UNCHANGED <<loop, category_select, report_type, files, all_validations,
                   moneyVars, docVars, valVars, extVars>>

BatchNext == AppProcessFile \/ MainProcessPdf

BatchSpec == BatchInit /\ [][BatchNext]_vars

(***************************************************************************)
(* Claims about the batch loops.                                           *)
(***************************************************************************)
\* what extraction returns for file i of the batch
Extracted(i) == extract_invoice_data(files[i].doc, loop = "main", OCR_AVAILABLE)

\* C9: under automatic classification every row of a document whose seller
\* name contains a known F&B brand carries the category of food and beverage,
\* whatever the line items say and also when there are none.
C9_BrandIsFoodAndBeverage ==
    category_select = "auto" =>
        \A j \in 1..Len(all_rows) :
            HasBrand(Extracted(all_rows[j].file).data[SELLER])
                => all_rows[j].category = CAT_AN_UONG

\* the processing of file i failed: reading the document raised, or seek(0)
\* raised after the extraction
Failed(i) == Extracted(i).raised \/ (loop = "app" /\ files[i].seek_fails)

DocumentLevelError(i) ==
    \E j \in 1..Len(all_validations) :
        /\ all_validations[j].file = i
        /\ \E k \in 1..Len(all_validations[j].issues) :
               /\ all_validations[j].issues[k].field = FILE_ISSUE
               /\ all_validations[j].issues[k].severity = "error"

\* C10: every file before the current one has been processed, in order, and
\* each of them whose processing failed has a document-level error issue.
C10_FailureIsDocumentLevelIssue ==
    /\ idx \in 1..(Len(files) + 1)
    /\ loop = "app" =>
           /\ Len(all_validations) = idx - 1
           /\ \A j \in 1..Len(all_validations) : all_validations[j].file = j
    /\ loop = "main" =>
           /\ Len(all_rows) = idx - 1
           /\ \A j \in 1..Len(all_rows) : all_rows[j].file = j
    /\ \A i \in 1..(idx - 1) : Failed(i) => DocumentLevelError(i)

(***************************************************************************)
(* Claims about the amounts of the OCR path.                               *)
(***************************************************************************)
\* the rules of the text path that follow the extraction of the amounts, in
\* the order of the code: noise floor, derivation of the total, of the
\* pre-tax amount, the second derivation of the total, the sanity check of
\* the tax, and the rules and the normalisation after the try block
TextReconciliation(d) ==
    The({ MoneyCleanup(r7) :
          r7 \in { OtherBucketCleanup(r6) :
          r6 \in { FinalRateInference(r5) :
          r5 \in { TaxFromBuckets(r4) :
          r4 \in { TaxSanityCheck(r3) :
          r3 \in { RerunTax(r2) :
          r2 \in { ReverseCase(r1) :
          r1 \in { DeriveTotal(r0) :
          r0 \in { NoiseFloor(d) } } } } } } } } })

\* C15: the amounts of a record returned on the OCR path are the amounts the
\* reconciliation of the text path gives for the values the OCR matchers
\* extracted
C15_OcrSameReconciliation ==
    (pc = "returned" /\ via = "ocr") =>
        \A k \in MoneyKeys :
            data[k] = TextReconciliation(MergeOcr(NewRecord, OcrCaptured(doc.o)))[k]


(***************************************************************************)
(* Claims about the sign of the amounts.                                   *)
(***************************************************************************)
\* a value the record carries under a money key reads as an integer >= 0
NonNegativeMoney(s) ==
    \/ Blank(s)
    \/ s = Sentinel
    \/ (Head(Strip(s)) # "-" /\ ParseMoneyIn(s) >= 0)

\* C19: every value the returned record carries as amount before tax, as tax of
\* one rate, as total tax or as total is a non-negative integer, on the text
\* path and on the OCR path; a derived amount before tax (total - tax) and a
\* derived tax (total - amount before tax) are never negative.
C19_NonNegativeMoney ==
    pc = "returned" => \A k \in MoneyKeys : NonNegativeMoney(data[k])

(***************************************************************************)
(* Claims about the line items and the reconciliation of the amounts.      *)
(***************************************************************************)
\* the record a document with a text layer starts its rules from
TextEntry(d) == HiddenTotal(NewRecord, d.hidden)

\* a field that carries no amount: the empty string, or the "0" that the
\* derivation of the total and of the pre-tax amount write for a document in
\* which no rule matched an amount
NoAmount(s) == Blank(s) \/ ParseMoneyIn(s) = 0

\* C21: when the extractor of the line items found an item, the amounts of the
\* items sum to more than 0 and the record carries no pre-tax amount when the
\* fallback is reached, the fallback writes the formatted sum of the amounts of
\* the items as the pre-tax amount
C21_LineItemFallback ==
    (pc = "returned" /\ doc.layer = "text" /\ doc.m.services # <<>>) =>
        \A b4 \in { BeforeItemFallback(TextEntry(doc), doc.m) } :
            (NoAmount(b4[PRE]) /\ SumItems(doc.m.services) > 0) =>
                AfterItemFallback(TextEntry(doc), doc.m)[PRE]
                    = FormatMoneyIn(SumItems(doc.m.services))

\* the materiality threshold of the sanity check of the tax
MaterialityThreshold == 10000

\* C22: in every returned record, of a document with or without line items,
\* that carries a total tax and a pre-tax amount above the materiality
\* threshold, the total tax is smaller than the pre-tax amount: a tax that is
\* not has been discarded
C22_TaxBelowPreTax ==
    (pc = "returned" /\ data[TAX] # Sentinel /\ ~Blank(data[TAX])
        /\ ParseMoneyIn(data[PRE]) > MaterialityThreshold) =>
            ParseMoneyIn(data[TAX]) < ParseMoneyIn(data[PRE])

\* the part of C22 for the documents that have line items
C22_WithItems ==
    (pc = "returned" /\ line_items # <<>>) => C22_TaxBelowPreTax

\* C23: when the reconciliation derives the total itself (the total is blank
\* and the pre-tax amount is known when the derivation is reached), the
\* returned record satisfies total = pre-tax + total tax, whatever the later
\* steps do to the total tax
C23_DerivedTotalConsistent ==
    (pc = "returned" /\ doc.layer = "text") =>
        \A b1 \in { BeforeDeriveTotal(TextEntry(doc), doc.m) } :
            (Blank(b1[TOTAL]) /\ ~Blank(b1[PRE])) =>
                ParseMoneyIn(data[TOTAL]) = ParseMoneyIn(data[PRE]) + ParseMoneyIn(data[TAX])

\* the sum of the amounts of the buckets of a record
BucketSum(d) ==
    ParseMoneyIn(d[T0]) + ParseMoneyIn(d[T5]) + ParseMoneyIn(d[T8]) + ParseMoneyIn(d[T10])
        + ParseMoneyIn(d[T_KHAC])

\* C27: in every returned record that carries a total tax and at least one
\* bucket (0%, 5%, 8%, 10%, other), the total tax is the sum of the buckets
\* that are populated
C27_TaxIsBucketSum ==
    (pc = "returned" /\ data[TAX] # Sentinel /\ ~Blank(data[TAX])
        /\ \E k \in BucketKeys : ~Blank(data[k])) =>
            ParseMoneyIn(data[TAX]) = BucketSum(data)

\* the part of C27 for the documents with a text layer
C27_TextLayer == doc.layer = "text" => C27_TaxIsBucketSum

\* C28: the bucket of the rate 0% of a returned record never holds a tax
\* amount other than zero
C28_ZeroRateBucket ==
    (pc = "returned" /\ data[T0] # Sentinel) => ParseMoneyIn(data[T0]) = 0

(***************************************************************************)
(* The entries of the validation results after the batch of app.py.        *)
(***************************************************************************)
\* the try body of file i raised: seek(0) is the statement of the body that
\* can raise, extract_invoice_data catches what its own body raises
TryRaised(i) == files[i].seek_fails

\* the entry the handler appends
ErrorEntry(i) == [file |-> i, issues |-> <<Issue(FILE_ISSUE, "error", "exception")>>]

\* the entry the try body appends
ValidatorEntry(i) == [file |-> i, issues |-> validate_invoice_data(Extracted(i).data)]

RowsOf(i) == { j \in 1..Len(all_rows) : all_rows[j].file = i }

NL == "\n"

\* str.strip() without argument: blanks and line ends
RECURSIVE LStripWs(_)
LStripWs(s) == IF s # <<>> /\ Head(s) \in {" ", NL} THEN LStripWs(Tail(s)) ELSE s

RECURSIVE RStripWs(_)
RStripWs(s) ==
    IF s # <<>> /\ s[Len(s)] \in {" ", NL} THEN RStripWs(SubSeq(s, 1, Len(s) - 1)) ELSE s

StripWs(s) == RStripWs(LStripWs(s))

\* for page in pdf.pages: if page_text: full_text += page_text + "\n"
RECURSIVE ReadPages(_)
ReadPages(pages) ==
    IF pages = <<>> THEN <<>>
    ELSE (IF Head(pages) # <<>> THEN Head(pages) \o <<NL>> ELSE <<>>) \o ReadPages(Tail(pages))

\* full_text.split('\n')
RECURSIVE SplitLines(_)
SplitLines(s) ==
    IF ~Contains(s, NL) THEN <<s>>
    ELSE LET i == CHOOSE j \in 1..Len(s) : s[j] = NL /\ \A h \in 1..(j - 1) : s[h] # NL
         IN <<SubSeq(s, 1, i - 1)>> \o SplitLines(SubSeq(s, i + 1, Len(s)))

\* "\n".join(clean_lines)
RECURSIVE JoinLines(_)
JoinLines(lines) ==
    IF lines = <<>> THEN <<>>
    ELSE IF Len(lines) = 1 THEN lines[1]
    ELSE lines[1] \o <<NL>> \o JoinLines(Tail(lines))

\* line_strip.startswith('{') or (line_strip.startswith("'") and line_strip.endswith("'"))
IsGarbageLine(line) ==
    LET line_strip == StripWs(line)
    IN line_strip # <<>>
       /\ (Head(line_strip) = "{" \/ (Head(line_strip) = "'" /\ line_strip[Len(line_strip)] = "'"))

\* the loop that drops the lines of programming garbage
CleanLines(full_text) ==
    JoinLines(SelectSeq(SplitLines(full_text), LAMBDA line : ~IsGarbageLine(line)))

IsScannedAlways(full_text) == TRUE

\* if not full_text.strip(): the document is taken for a scan
IsScanned(full_text) == StripWs(full_text) = <<>>

\* a request to a provider: the conversion to images or one run of the engine
\* target: "page" with its index, or the crop "inv" or "mst" of the first page
Request(op, dpi, target, page, lang) ==
    [op |-> op, dpi |-> dpi, target |-> target, page |-> page, lang |-> lang]

CALL_OCR == Request("ocr_pdf_to_text", 0, "", 0, "")
CONVERT_300 == Request("convert_from_path", 300, "", 0, "")
CONVERT_600 == Request("convert_from_path", 600, "", 0, "")
WRITE_FIELDS == Request("extract_ocr_invoice_fields", 0, "", 0, "")

\* the languages the first pass tries on a page, and the second pass on a crop
PageLangs == <<"vie+eng", "vie", "eng">>
CropLangs == <<"vie+eng", "eng">>

\* the runs of the engine on one image: tries[i] is the outcome of the run
\* with langs[i], "fail" when image_to_string raises; a run is made when all
\* the runs before it failed
RECURSIVE EngineRuns(_, _, _, _, _, _)
EngineRuns(tries, langs, dpi, target, page, i) ==
    IF i > Len(langs) THEN <<>>
    ELSE <<Request("image_to_string", dpi, target, page, langs[i])>>
         \o (IF tries[i] = "fail" THEN EngineRuns(tries, langs, dpi, target, page, i + 1) ELSE <<>>)

\* what the runs on one image give: the text of the first run that does not
\* raise, "fail" when the last language raises too
RECURSIVE EngineText(_, _)
EngineText(tries, i) ==
    IF i > Len(tries) THEN "fail"
    ELSE IF tries[i] = "fail" THEN EngineText(tries, i + 1)
    ELSE tries[i]

\* for i, image in enumerate(images): the requests of the pages up to the
\* first page on which every language raises
RECURSIVE PageRequests(_, _)
PageRequests(images, i) ==
    IF i > Len(images) THEN <<>>
    ELSE EngineRuns(images[i], PageLangs, 300, "page", i, 1)
         \o (IF EngineText(images[i], 1) = "fail" THEN <<>> ELSE PageRequests(images, i + 1))

\* ocr_pdf_to_text: the requests it makes and whether the text it returns
\* has a character that is no blank
ocr_pdf_to_text(scan, ocr_available) ==
    IF ~ocr_available THEN [requests |-> <<>>, has_text |-> FALSE]
    ELSE IF scan.convert300 = "fail" THEN [requests |-> <<CONVERT_300>>, has_text |-> FALSE]
    ELSE [requests |-> <<CONVERT_300>> \o PageRequests(scan.images, 1),
          has_text |-> /\ \A i \in 1..Len(scan.images) : EngineText(scan.images[i], 1) # "fail"
                       /\ \E i \in 1..Len(scan.images) : EngineText(scan.images[i], 1) = "text"]

HdWantedAlways(inv_blank, mst_blank, ocr_available) == TRUE

\* if (not data.get("So hoa don") or not data.get("Ma so thue")) and OCR_AVAILABLE
HdWanted(inv_blank, mst_blank, ocr_available) == (inv_blank \/ mst_blank) /\ ocr_available

\* the crops of the first page that the second pass reads: the one of the
\* number when the number is blank, then the one of the tax code when the tax
\* code is blank; an exception of the first ends the pass
HdCropRequests(inv_blank, mst_blank, hd) ==
    (IF inv_blank THEN EngineRuns(hd.crop_inv, CropLangs, 600, "inv", 1, 1) ELSE <<>>)
    \o (IF mst_blank /\ ~(inv_blank /\ EngineText(hd.crop_inv, 1) = "fail")
        THEN EngineRuns(hd.crop_mst, CropLangs, 600, "mst", 1, 1) ELSE <<>>)

HdRequests(inv_blank, mst_blank, hd, ocr_available) ==
    IF ~HdWanted(inv_blank, mst_blank, ocr_available) THEN <<>>
    ELSE <<CONVERT_600>>
         \o (IF hd.convert600 = "image" THEN HdCropRequests(inv_blank, mst_blank, hd) ELSE <<>>)

\* whether the second pass writes the number, the tax code
HdWritesInv(inv_blank, mst_blank, hd, ocr_available) ==
    /\ HdWanted(inv_blank, mst_blank, ocr_available) /\ hd.convert600 = "image"
    /\ inv_blank /\ EngineText(hd.crop_inv, 1) = "text"

HdWritesMst(inv_blank, mst_blank, hd, ocr_available) ==
    /\ HdWanted(inv_blank, mst_blank, ocr_available) /\ hd.convert600 = "image"
    /\ mst_blank /\ ~(inv_blank /\ EngineText(hd.crop_inv, 1) = "fail")
    /\ EngineText(hd.crop_mst, 1) = "text"

(***************************************************************************)
(* The routing as a state machine.                                         *)
(***************************************************************************)
\* the text extract_text gives for a page: none, blanks, a word, garbage
PageTexts == { <<>>, <<" ">>, <<"a">>, <<"{", "a">> }

\* the outcomes of the runs of the engine on a page, by language tried
PageTries ==
    { <<"text", "text", "text">>, <<"blank", "blank", "blank">>, <<"fail", "text", "text">>,
      <<"fail", "fail", "blank">>, <<"fail", "fail", "fail">> }

\* the same on a crop; "text" stands for a text in which the pattern matches
CropTries == { <<"text", "text">>, <<"blank", "blank">>, <<"fail", "text">>, <<"fail", "fail">> }

MaxPages == 2

SeqsUpTo(S, n) == UNION { [1..k -> S] : k \in 0..n }

RouteDocs ==
    { RouteDoc(p, FALSE, fb, NoScan, FALSE, FALSE, NoHdPass) :
        p \in SeqsUpTo(PageTexts, MaxPages), fb \in {"none", "found", "raises"} }
    \cup { RouteDoc(<<>>, o, "none", NoScan, FALSE, FALSE, NoHdPass) : o \in BOOLEAN }
    \cup { RouteDoc(p, FALSE, "none", [convert300 |-> c, images |-> im], TRUE, TRUE, NoHdPass) :
             p \in {<<>>, <<<<" ">>>>}, c \in {"ok", "fail"}, im \in SeqsUpTo(PageTries, MaxPages) }
    \cup { RouteDoc(<<>>, FALSE, "none", [convert300 |-> "ok", images |-> << <<"text", "text", "text">> >>],
                    i, m, [convert600 |-> c, crop_inv |-> ci, crop_mst |-> cm]) :
             i \in BOOLEAN, m \in BOOLEAN, c \in {"fail", "none", "image"},
             ci \in CropTries, cm \in CropTries }

RouteInit ==
    /\ RouteIdle
    /\ pc = "idle"
    /\ doc = NoDoc
    /\ srcIsPath = FALSE
    /\ OCR_AVAILABLE \in BOOLEAN
    /\ data = NewRecord
    /\ line_items = <<>>
    /\ raised = FALSE
    /\ via = ""
    /\ MoneyIdle /\ ValIdle /\ BatchIdle /\ RouteRestIdle

\* extract_invoice_data(pdf_source, filename) is called
RouteCall ==
    /\ rPc = "idle"
    /\ \E d \in RouteDocs, p \in BOOLEAN :
        /\ rSrc' = d
        /\ rIsPath' = p
    /\ rPc' = "open"
    /\ UNCHANGED <<rText, rOcrHasText, rInvBlank, rMstBlank, rLog, rOut>>
    /\ UNCHANGED <<moneyVars, docVars, valVars, batchVars, routeRest>>

\* with pdfplumber.open(pdf_source) ...: an exception leaves the try block
ReadTextLayer ==
    /\ rPc = "open"
    /\ IF rSrc.open_fails
       THEN /\ rPc' = "handler"
            /\ rText' = rText
       ELSE \E full_text \in { ReadPages(rSrc.pages) } :
            /\ rText' = full_text
            /\ rPc' = IF IsScanned(full_text) THEN "scanned" ELSE "text"
    /\ UNCHANGED <<rSrc, rIsPath, rOcrHasText, rInvBlank, rMstBlank, rLog, rOut>>
    /\ UNCHANGED <<moneyVars, docVars, valVars, batchVars, routeRest>>

\* ocr_text = ocr_pdf_to_text(pdf_source, filename)
OcrFirstPass ==
    /\ rPc = "scanned"
    /\ \E r \in { ocr_pdf_to_text(rSrc.scan, OCR_AVAILABLE) } :
        /\ rLog' = rLog \o <<CALL_OCR>> \o r.requests
        /\ rOcrHasText' = r.has_text
    /\ rPc' = "ocr_done"
    /\ UNCHANGED <<rSrc, rIsPath, rText, rInvBlank, rMstBlank, rOut>>
    /\ UNCHANGED <<moneyVars, docVars, valVars, batchVars, routeRest>>

\* if ocr_text.strip(): the fields of extract_ocr_invoice_fields are merged
OcrFields ==
    /\ rPc = "ocr_done"
    /\ rOcrHasText
    /\ rLog' = Append(rLog, WRITE_FIELDS)
    /\ rInvBlank' = ~rSrc.inv1
    /\ rMstBlank' = ~rSrc.mst1
    /\ rPc' = "first_pass"
    /\ UNCHANGED <<rSrc, rIsPath, rText, rOcrHasText, rOut>>
    /\ UNCHANGED <<moneyVars, docVars, valVars, batchVars, routeRest>>

\* else: print("OCR also failed"); return data, []
OcrEmptyReturn ==
    /\ rPc = "ocr_done"
    /\ ~rOcrHasText
    /\ rOut' = "ocr_empty"
    /\ rPc' = "returned"
    /\ UNCHANGED <<rSrc, rIsPath, rText, rOcrHasText, rInvBlank, rMstBlank, rLog>>
    /\ UNCHANGED <<moneyVars, docVars, valVars, batchVars, routeRest>>

\* the high-resolution pass on the crops of the first page
HdPass ==
    /\ rPc = "first_pass"
    /\ rLog' = rLog \o HdRequests(rInvBlank, rMstBlank, rSrc.hd, OCR_AVAILABLE)
    /\ rInvBlank' = (rInvBlank /\ ~HdWritesInv(rInvBlank, rMstBlank, rSrc.hd, OCR_AVAILABLE))
    /\ rMstBlank' = (rMstBlank /\ ~HdWritesMst(rInvBlank, rMstBlank, rSrc.hd, OCR_AVAILABLE))
    /\ rPc' = "hd_done"
    /\ UNCHANGED <<rSrc, rIsPath, rText, rOcrHasText, rOut>>
    /\ UNCHANGED <<moneyVars, docVars, valVars, batchVars, routeRest>>

\* the classification by the keywords of the OCR text; return data, []
OcrReturn ==
    /\ rPc = "hd_done"
    /\ rOut' = "ocr"
    /\ rPc' = "returned"
    /\ UNCHANGED <<rSrc, rIsPath, rText, rOcrHasText, rInvBlank, rMstBlank, rLog>>
    /\ UNCHANGED <<moneyVars, docVars, valVars, batchVars, routeRest>>

\* the cleanup of the lines and the text file beside a path source
CleanText ==
    /\ rPc = "text"
    /\ \E cleaned \in { CleanLines(rText) } :
        IF cleaned = <<>> /\ rIsPath /\ rSrc.fallback = "raises"
        THEN /\ rText' = cleaned
             /\ rPc' = "handler"
        ELSE /\ rText' = IF cleaned = <<>> /\ rIsPath /\ rSrc.fallback = "found"
                         THEN <<"a">> ELSE cleaned
             /\ rPc' = "cleaned"
    /\ UNCHANGED <<rSrc, rIsPath, rOcrHasText, rInvBlank, rMstBlank, rLog, rOut>>
    /\ UNCHANGED <<moneyVars, docVars, valVars, batchVars, routeRest>>

\* if not full_text.strip(): every field is set to the sentinel
SentinelReturn ==
    /\ rPc = "cleaned"
    /\ IsScanned(rText)
    /\ rOut' = "sentinel"
    /\ rPc' = "returned"
    /\ UNCHANGED <<rSrc, rIsPath, rText, rOcrHasText, rInvBlank, rMstBlank, rLog>>
    /\ UNCHANGED <<moneyVars, docVars, valVars, batchVars, routeRest>>

\* the patterns run on the text and the record is returned at the end
ParseText ==
    /\ rPc = "cleaned"
    /\ ~IsScanned(rText)
    /\ rOut' = "end"
    /\ rPc' = "returned"
    /\ UNCHANGED <<rSrc, rIsPath, rText, rOcrHasText, rInvBlank, rMstBlank, rLog>>
    /\ UNCHANGED <<moneyVars, docVars, valVars, batchVars, routeRest>>

\* except Exception as e: print(...); the statements after the try block run
\* and the record is returned as it stands
ExceptHandler ==
    /\ rPc = "handler"
    /\ rOut' = "raised"
    /\ rPc' = "returned"
    /\ UNCHANGED <<rSrc, rIsPath, rText, rOcrHasText, rInvBlank, rMstBlank, rLog>>
    /\ UNCHANGED <<moneyVars, docVars, valVars, batchVars, routeRest>>

RouteNext ==
    \/ RouteCall \/ ReadTextLayer \/ OcrFirstPass \/ OcrFields \/ OcrEmptyReturn
    \/ HdPass \/ OcrReturn \/ CleanText \/ SentinelReturn \/ ParseText \/ ExceptHandler

RouteSpec == RouteInit /\ [][RouteNext]_vars

(***************************************************************************)
(* Claims about the routing.                                               *)
(***************************************************************************)
Requests(op) == SelectSeq(rLog, LAMBDA q : q.op = op)

OcrCalled == Requests("ocr_pdf_to_text") # <<>>

\* the text layer of the document has a character that is no blank
HasTextLayer ==
    /\ ~rSrc.open_fails
    /\ \E i \in 1..Len(rSrc.pages) : \E j \in 1..Len(rSrc.pages[i]) :
          rSrc.pages[i][j] \notin {" ", NL}

\* C11: when the read of the text layer raises, the document goes to the OCR
\* as it does when the read gives nothing, and a document whose OCR fails or
\* gives nothing (or whose read raised) ends as the unrecognized record, never
\* as another outcome
C11_FailureRouting ==
    rPc = "returned" =>
        /\ (rSrc.open_fails => OcrCalled)
        /\ ((rSrc.open_fails \/ (OcrCalled /\ ~rOcrHasText)) => rOut = "sentinel")

\* C12: for a document whose text layer has a character that is no blank, no
\* request goes to the OCR, in the first pass or the high-resolution pass, and
\* the OCR matchers write no field
C12_OcrOnlyWithoutTextLayer ==
    (rPc # "idle" /\ HasTextLayer) => (rLog = <<>> /\ rOut \notin {"ocr", "ocr_empty"})

C12_Witness ==
    /\ rPc = "returned" /\ HasTextLayer /\ rOut = "sentinel" /\ OCR_AVAILABLE /\ rLog = <<>>

C14_NoRetry ==
    \A i, j \in 1..Len(rLog) :
        (/\ rLog[i].op = "image_to_string" /\ rLog[j].op = "image_to_string"
         /\ rLog[i].dpi = rLog[j].dpi /\ rLog[i].target = rLog[j].target
         /\ rLog[i].page = rLog[j].page) => i = j

\* str.isdigit()
IsDigitStr(s) == s # <<>> /\ AllDigits(s)

\* the length of the longest run of characters of cls that starts at s[i]
RunLen(s, i, cls) ==
    CHOOSE n \in 0..(Len(s) - i + 1) :
        /\ \A j \in i..(i + n - 1) : s[j] \in cls
        /\ (i + n > Len(s) \/ s[i + n] \notin cls)

\* s.split()
RECURSIVE SplitWords(_)
SplitWords(s) ==
    IF s = <<>> THEN <<>>
    ELSE IF Head(s) = " " THEN SplitWords(Tail(s))
    ELSE \* the word at the head of s ends before the first blank
         CHOOSE ws \in { <<SubSeq(s, 1, n)>> \o SplitWords(SubSeq(s, n + 1, Len(s))) :
                           n \in { RunLen(s, 1, { s[k] : k \in 1..Len(s) } \ {" "}) } } : TRUE

UpperAZ == { UpperLetters[i] : i \in 1..Len(UpperLetters) }
LowerAZ == { LowerLetters[i] : i \in 1..Len(LowerLetters) }

\* re.match(r'^[\d\s.,|()x=+]+$', line)
IsColumnHeader(s) == s # <<>> /\ \A i \in 1..Len(s) : s[i] \in Digits \cup {" ", ".", ",", "|", "(", ")", "x", "=", "+"}

\* re.match(r'^[A-Z\s]+[\d\s=x]+$', line)
IsLetterHeader(s) ==
    \E k \in 1..(Len(s) - 1) :
        /\ \A i \in 1..k : s[i] \in UpperAZ \cup {" "}
        /\ \A i \in (k + 1)..Len(s) : s[i] \in Digits \cup {" ", "=", "x"}

SttSeparators == {".", "_", "-", " ", "|"}

\* re.match(r'^(\d{1,3})[._\-\s|]+', line): the digits and the length of the match
MatchStt(s) ==
    LET n == RunLen(s, 1, Digits)
    IN IF n \in 1..3 /\ n < Len(s) /\ s[n + 1] \in SttSeparators
       THEN [ok |-> TRUE, stt |-> SubSeq(s, 1, n), stt_end |-> n + RunLen(s, n + 1, SttSeparators)]
       ELSE [ok |-> FALSE, stt |-> <<>>, stt_end |-> 0]

\* the end of the match of \d+(?:[.,]\d+)* that starts at the digit s[i]
RECURSIVE NumEnd(_, _)
NumEnd(s, i) ==
    CHOOSE r \in { IF e + 2 <= Len(s) /\ s[e + 1] \in {".", ","} /\ s[e + 2] \in Digits
                   THEN NumEnd(s, e + 2) ELSE e :
                   e \in { i + RunLen(s, i, Digits) - 1 } } : TRUE

\* re.finditer(r'(\d+(?:[.,]\d+)*)', s) from s[i] on: start is m.start()
RECURSIVE NumBlocks(_, _)
NumBlocks(s, i) ==
    IF i > Len(s) THEN <<>>
    ELSE IF s[i] \notin Digits THEN NumBlocks(s, i + 1)
    ELSE CHOOSE r \in { <<[start |-> i - 1, text |-> SubSeq(s, i, e)]>> \o NumBlocks(s, e + 1) :
                          e \in { NumEnd(s, i) } } : TRUE

NumTexts(blocks) == [i \in 1..Len(blocks) |-> blocks[i].text]

HasSurcharge(s) == \E kw \in SURCHARGE_KEYWORDS : IsSubstr(kw, ToLower(s))

\* re.search(r'\b(0|5|8|10)\s*%', line): group(1), <<>> for None
RateCandidates == << <<"0">>, <<"5">>, <<"8">>, <<"1", "0">> >>

RateAt(s, i) ==
    LET fits == { c \in 1..Len(RateCandidates) :
                    /\ i + Len(RateCandidates[c]) - 1 <= Len(s)
                    /\ SubSeq(s, i, i + Len(RateCandidates[c]) - 1) = RateCandidates[c]
                    /\ ~WordAt(s, i - 1)
                    /\ LET j == i + Len(RateCandidates[c])
                           k == j + RunLen(s, j, {" "})
                       IN k <= Len(s) /\ s[k] = "%" }
    IN IF fits = {} THEN <<>> ELSE RateCandidates[CHOOSE c \in fits : \A e \in fits : c <= e]

RECURSIVE LineTaxRate(_, _)
LineTaxRate(s, i) ==
    IF i > Len(s) THEN <<>>
    ELSE IF RateAt(s, i) # <<>> THEN RateAt(s, i)
    ELSE LineTaxRate(s, i + 1)

IsUnit(tok) == ToUpper(tok) \in COMMON_UNITS

HasDigit(s) == \E i \in 1..Len(s) : s[i] \in Digits

\* the index of the last unit word, THANH left out, that has a number after
\* it; 0 when there is none
UnitIdx(tokens) ==
    LET found == { i \in 1..Len(tokens) :
                     /\ IsUnit(tokens[i]) /\ ToUpper(tokens[i]) # THANH
                     /\ \E j \in (i + 1)..Len(tokens) : HasDigit(tokens[j]) }
    IN IF found = {} THEN 0 ELSE CHOOSE i \in found : \A j \in found : j <= i

\* the number looks like a price: a separator or four digits or more
PriceLike(num_str) == Contains(num_str, ".") \/ Contains(num_str, ",") \/ Len(num_str) >= 4

\* name_part and nums when no unit word is found; ok is FALSE for `continue`
NoUnitSplit(s, stt_end) ==
    LET nums_after_stt == SelectSeq(NumBlocks(s, 1), LAMBDA b : b.start > stt_end)
        prices == { i \in 1..Len(nums_after_stt) : PriceLike(nums_after_stt[i].text) }
        name_end_pos == IF prices = {} THEN Len(s)
                        ELSE nums_after_stt[CHOOSE i \in prices : \A j \in prices : i <= j].start
    IN IF name_end_pos <= stt_end THEN [ok |-> FALSE, name_part |-> <<>>, nums |-> <<>>]
       ELSE [ok |-> TRUE, name_part |-> Strip(SubSeq(s, stt_end + 1, name_end_pos)),
             nums |-> NumTexts(nums_after_stt)]

\* name_part and nums when tokens[unit_idx] is the unit word
UnitSplit(tokens, unit_idx) ==
    LET name_tokens == SubSeq(tokens, 1, unit_idx - 1)
        nums == NumTexts(NumBlocks(JoinParts(SubSeq(tokens, unit_idx + 1, Len(tokens))), 1))
    IN IF Len(nums) < 2 /\ ~(HasSurcharge(JoinParts(name_tokens)) /\ Len(nums) = 1)
       THEN [ok |-> FALSE, name_part |-> <<>>, nums |-> <<>>]
       ELSE [ok |-> TRUE, name_part |-> JoinParts(name_tokens), nums |-> nums]

\* while tokens and tokens[-1].upper() in COMMON_UNITS: tokens = tokens[:-1]
RECURSIVE DropUnitsAtEnd(_)
DropUnitsAtEnd(tokens) ==
    IF tokens # <<>> /\ IsUnit(tokens[Len(tokens)])
    THEN DropUnitsAtEnd(SubSeq(tokens, 1, Len(tokens) - 1)) ELSE tokens

\* while tokens and tokens[0].upper() in COMMON_UNITS and tokens[0].upper() != "THANH"
RECURSIVE DropUnitsAtStart(_)
DropUnitsAtStart(tokens) ==
    IF tokens # <<>> /\ IsUnit(tokens[1]) /\ ToUpper(tokens[1]) # THANH
    THEN DropUnitsAtStart(Tail(tokens)) ELSE tokens

\* first.startswith(')'): tokens[0] = first[1:].strip()
FixFirstToken(tokens) ==
    IF tokens # <<>> /\ tokens[1] # <<>> /\ Head(tokens[1]) = ")"
    THEN [tokens EXCEPT ![1] = Strip(Tail(tokens[1]))] ELSE tokens

HasSuffix(p, s) == Len(s) >= Len(p) /\ SubSeq(s, Len(s) - Len(p) + 1, Len(s)) = p

\* the units of three letters or more that end the last token and are
\* shorter than it: the loop over the set COMMON_UNITS cuts the first it meets
LongUnitSuffixes(tokens) ==
    IF tokens = <<>> THEN {}
    ELSE { u \in COMMON_UNITS :
             /\ Len(u) >= 3 /\ HasSuffix(u, ToUpper(tokens[Len(tokens)]))
             /\ Len(tokens[Len(tokens)]) > Len(u) }

RECURSIVE RStripParen(_)
RStripParen(s) ==
    IF s # <<>> /\ s[Len(s)] = "(" THEN RStripParen(SubSeq(s, 1, Len(s) - 1)) ELSE s

\* tokens[-1] = last[:-len(unit)].rstrip('(') for the unit met first; unit is
\* <<>> when no unit ends the last token
CutUnitSuffix(tokens, unit) ==
    IF unit = <<>> THEN tokens
    ELSE [tokens EXCEPT ![Len(tokens)] =
             RStripParen(SubSeq(tokens[Len(tokens)], 1, Len(tokens[Len(tokens)]) - Len(unit)))]

\* if name_part.startswith(stt_val): name_part = name_part[len(stt_val):].strip()
DropStt(name_part, stt_val) ==
    IF HasPrefix(stt_val, name_part) THEN Strip(Drop(name_part, Len(stt_val))) ELSE name_part

\* the two tests of one prefix, in the order of the code
RemovePrefix(name_part, prefix) ==
    CHOOSE r \in { IF HasPrefix(prefix, n1) THEN Strip(Drop(n1, Len(prefix))) ELSE n1 :
                   n1 \in { IF HasPrefix(prefix \o <<" ">>, name_part)
                            THEN Strip(Drop(name_part, Len(prefix))) ELSE name_part } } : TRUE

RECURSIVE RemovePrefixes(_, _)
RemovePrefixes(name_part, i) ==
    IF i > Len(PrefixesToRemove) THEN name_part
    ELSE RemovePrefixes(RemovePrefix(name_part, PrefixesToRemove[i]), i + 1)

\* re.sub(r'^(?:[A-C]\s)+[\d\s=x]+', '', name_part)
RECURSIVE LetterPairs(_, _)
LetterPairs(s, i) ==
    IF i + 1 <= Len(s) /\ s[i] \in {"A", "B", "C"} /\ s[i + 1] = " "
    THEN 1 + LetterPairs(s, i + 2) ELSE 0

DropLetterColumns(s) ==
    LET k == LetterPairs(s, 1)
        r == RunLen(s, 2 * k + 1, Digits \cup {" ", "=", "x"})
    IN IF k >= 1 /\ r >= 1 THEN Drop(s, 2 * k + r) ELSE s

\* re.sub(r'^[\d\s=x+]+(\s|$)', '', name_part)
DropLeadingColumns(s) ==
    LET r == RunLen(s, 1, Digits \cup {" ", "=", "x", "+"})
        blanks == { w \in 2..r : s[w] = " " }
    IN IF r = 0 THEN s
       ELSE IF r = Len(s) THEN <<>>
       ELSE IF blanks = {} THEN s
       ELSE Drop(s, CHOOSE w \in blanks : \A v \in blanks : v <= w)

\* re.sub(r'\s+[\-\+]\s*[\d\s=x\+\-]+$', '', name_part)
DropTrailingColumns(s) ==
    LET starts == { i \in 1..Len(s) :
                      /\ s[i] = " "
                      /\ LET j == i + RunLen(s, i, {" "})
                         IN /\ j + 1 <= Len(s)
                            /\ s[j] \in {"-", "+"}
                            /\ \A k \in (j + 1)..Len(s) : s[k] \in Digits \cup {" ", "=", "x", "+", "-"} }
    IN IF starts = {} THEN s
       ELSE SubSeq(s, 1, (CHOOSE i \in starts : \A j \in starts : i <= j) - 1)

\* re.search(r'(\S+)\s+(\d+[\s.,\d]*)$', name_part): the starts of group(2)
\* for which a word and blanks stand before it and the class runs to the end
TrailingStarts(s) ==
    { g \in 3..Len(s) :
        /\ s[g] \in Digits /\ s[g - 1] = " "
        /\ \E w \in 1..(g - 2) : s[w] # " " /\ \A k \in (w + 1)..(g - 1) : s[k] = " "
        /\ \A k \in g..Len(s) : s[k] \in Digits \cup {" ", ".", ","} }

\* the word before group(2): the run without blanks that ends before its blanks
WordBefore(s, g) ==
    LET e == CHOOSE w \in 1..(g - 2) : s[w] # " " /\ \A k \in (w + 1)..(g - 1) : s[k] = " "
        b == CHOOSE w \in 1..e : (\A k \in w..e : s[k] # " ") /\ (w = 1 \/ s[w - 1] = " ")
    IN SubSeq(s, b, e)

\* the trailing numbers go unless they are a year or follow a price word
DropTrailingNumber(s) ==
    LET gs == TrailingStarts(s)
    IN IF gs = {} THEN s
       ELSE LET g == CHOOSE x \in gs : \A y \in gs : x <= y
                num_part == SplitWords(SubSeq(s, g, Len(s)))[1]
                keep_number == \/ (Len(num_part) = 4 /\ IsDigitStr(num_part))
                               \/ ToLower(WordBefore(s, g)) \in PriceKeywords
            IN IF keep_number THEN s ELSE Strip(SubSeq(s, 1, g - 1))

\* re.match(r'^([A-Z]\s+)+[A-Z]$', text)
IsSpacedCapitals(s) ==
    /\ Len(s) >= 3
    /\ s[1] \in UpperAZ /\ s[Len(s)] \in UpperAZ /\ s[Len(s) - 1] = " "
    /\ \A i \in 1..Len(s) : s[i] \in UpperAZ \cup {" "}
    /\ \A i \in 1..(Len(s) - 1) : s[i] \in UpperAZ => s[i + 1] = " "

is_junk_text(text) ==
    \/ Len(text) < 2
    \/ IsSpacedCapitals(text)
    \/ \A i \in 1..Len(text) : text[i] \in Digits \cup {" ", "(", ")", "=", "x", "+"}
    \/ \E w \in JUNK_TEXT_KEYWORDS : IsSubstr(w, ToLower(text))
    \/ (Len(text) > 50 /\ Cardinality({ i \in 1..Len(text) : text[i] \in {"(", ")"} }) > 4)

\* the four tests that skip a name
IsJunkName(name_part) ==
    \/ Len(name_part) < 3
    \/ is_junk_text(name_part)
    \/ \A i \in 1..Len(name_part) : name_part[i] \in Digits \cup {" "}
    \/ \A i \in 1..Len(name_part) :
          name_part[i] \in Digits \cup {" ", "=", "x", "+", "-", ".", ",", "(", ")", "[", "]"}

format_price_valueNoGrouping(value) == value

\* format_price_value(value) for a string
format_price_value(value) ==
    IF value = <<>> THEN value
    ELSE LET s == Strip(value)
             cut == IF Contains(s, ".") /\ Contains(s, ",")
                    THEN (IF RFind(s, ",") > RFind(s, ".")
                          THEN SubSeq(s, 1, RFind(s, ",") - 1)
                          ELSE SubSeq(s, 1, RFind(s, ".") - 1))
                    ELSE IF EndsSepDigits(s, 2) /\ ~EndsSepDigits(s, 3)
                    THEN SubSeq(s, 1, Len(s) - 3)
                    ELSE s
             clean == StripSeparators(cut)
         IN IF IntValid(clean) THEN Grouped(IntValue(clean), ",") ELSE value

\* float(s) of a literal without a fraction; ok is FALSE for ValueError.  A
\* literal with a fraction other than zeros has no value here.
PyFloat(s) ==
    LET dots == { i \in 1..Len(s) : s[i] = "." }
    IN CASE s # <<>> /\ AllDigits(s) -> [ok |-> TRUE, v |-> DigitsValue(s)]
         [] Cardinality(dots) = 1 /\ StripSeparators(s) # <<>> /\ AllDigits(StripSeparators(s))
              /\ \A i \in 1..Len(s) : (\E d \in dots : i > d) => s[i] = "0"
              -> [ok |-> TRUE,
                  v |-> DigitsValue(SubSeq(s, 1, (CHOOSE d \in dots : TRUE) - 1))]
         [] Cardinality(dots) > 1 \/ s = <<>> \/ \E i \in 1..Len(s) : s[i] \notin Digits \cup {"."}
              -> [ok |-> FALSE, v |-> 0]

\* s.replace(a, b) for single characters; b = "" removes a
ReplaceChar(s, a, b) ==
    IF b = "" THEN SelectSeq(s, LAMBDA c : c # a)
    ELSE IF s = <<>> THEN <<>> ELSE [i \in 1..Len(s) |-> IF s[i] = a THEN b ELSE s[i]]

\* parse_vietnamese_number(value)
parse_vietnamese_number(value) ==
    IF value = <<>> THEN 0
    ELSE LET f == PyFloat(ReplaceChar(ReplaceChar(value, ".", ""), ",", "."))
         IN IF f.ok THEN f.v ELSE 0

\* s.strip('0')
RECURSIVE StripZeros(_)
StripZeros(s) ==
    IF s # <<>> /\ Head(s) = "0" THEN StripZeros(Tail(s))
    ELSE IF s # <<>> /\ s[Len(s)] = "0" THEN StripZeros(SubSeq(s, 1, Len(s) - 1))
    ELSE s

\* the amount among nums[2] and nums[3] when there are five numbers or more
SmartAmount(nums) ==
    LET qty == nums[1]
        unit_price == nums[2]
        cand2 == nums[3]
        cand3 == nums[4]
        has_discount_column == StripZeros(StripSeparators(nums[3])) \in {<<>>, <<"0">>}
        q == PyFloat(IF Contains(qty, ",") THEN StripSeparators(qty) ELSE qty)
        p1 == PyFloat(ReplaceChar(ReplaceChar(unit_price, ".", ""), ",", "."))
        p == IF p1.ok /\ p1.v < 100 /\ Contains(unit_price, ".")
             THEN PyFloat(StripSeparators(unit_price)) ELSE p1
    IN IF ~q.ok \/ ~p1.ok \/ ~p.ok
       THEN (IF has_discount_column THEN cand3 ELSE cand2)
       ELSE LET expected == IF q.v * p.v = 0 /\ q.v = 0 THEN p.v ELSE q.v * p.v
                v2 == parse_vietnamese_number(cand2)
                v3 == parse_vietnamese_number(cand3)
            IN IF Abs(v3 - expected) < Abs(v2 - expected) /\ 2 * v2 < expected THEN cand3
               ELSE IF has_discount_column THEN cand3
               ELSE cand2

\* qty, unit_price and amount out of the numbers of the line
PickNumbers(nums) ==
    IF Len(nums) >= 5
    THEN [qty |-> nums[1], unit_price |-> nums[2], amount |-> SmartAmount(nums)]
    ELSE IF Len(nums) >= 3
    THEN [qty |-> nums[1], unit_price |-> nums[2], amount |-> nums[3]]
    ELSE [qty |-> nums[1], unit_price |-> nums[2], amount |-> nums[2]]

\* an amount of 100 or less beside a price above 1000 is taken for a rate
FixSmallAmount(n) ==
    LET a_str == StripSeparators(n.amount)
        p_str == StripSeparators(n.unit_price)
    IN IF IsDigitStr(a_str) /\ IsDigitStr(p_str)
          /\ DigitsValue(a_str) <= 100 /\ DigitsValue(p_str) > 1000
       THEN [n EXCEPT !.amount = n.unit_price,
                      !.qty = IF n.qty = <<"0">> \/ n.qty = <<>> THEN <<"1">> ELSE n.qty]
       ELSE n

NoSplit == [ok |-> FALSE, stt |-> <<>>, name_part |-> <<>>, nums |-> <<>>, tax_rate |-> <<>>]

\* from the line to name_part and nums; ok is FALSE where the code continues
LineSplit(line) ==
    LET tokens == SplitWords(line)
        m == MatchStt(line)
        all_nums == NumBlocks(line, 1)
    IN IF line = <<>> \/ ~IsDigitStr(tokens[1]) THEN NoSplit
       ELSE IF IsColumnHeader(line) \/ IsLetterHeader(line) THEN NoSplit
       ELSE IF ~m.ok THEN NoSplit
       ELSE IF Len(all_nums) < 3 /\ ~(HasSurcharge(line) /\ Len(all_nums) = 2) THEN NoSplit
       ELSE CHOOSE r \in
              { IF ~sp.ok THEN NoSplit
                ELSE IF Len(sp.nums) < 2 /\ ~(HasSurcharge(sp.name_part) /\ Len(sp.nums) = 1)
                THEN NoSplit
                ELSE [ok |-> TRUE, stt |-> m.stt, name_part |-> sp.name_part,
                      nums |-> IF Len(sp.nums) < 2
                               THEN <<<<"1">>, sp.nums[1], sp.nums[1]>> ELSE sp.nums,
                      tax_rate |-> LineTaxRate(line, 1)] :
                sp \in { IF u = 0 THEN NoUnitSplit(line, m.stt_end) ELSE UnitSplit(tokens, u) :
                         u \in { UnitIdx(tokens) } } } : TRUE

\* the tokens of the name before the loop over COMMON_UNITS
NameTokens(name_part) == FixFirstToken(DropUnitsAtStart(DropUnitsAtEnd(SplitWords(name_part))))

\* the units the loop over the set COMMON_UNITS can meet first
UnitChoices(line) ==
    CHOOSE r \in { IF ~sp.ok \/ LongUnitSuffixes(NameTokens(sp.name_part)) = {} THEN { <<>> }
                   ELSE LongUnitSuffixes(NameTokens(sp.name_part)) :
                   sp \in { LineSplit(line) } } : TRUE

\* name_part when the merge of the lines around it starts: the unit cut from
\* the last word and the sequence number cut from the front
NameHead(name_part, stt_val, unit) ==
    The({ DropStt(n0, stt_val) :
          n0 \in { JoinParts(CutUnitSuffix(NameTokens(name_part), unit)) } })

\* the cleaning steps after the merge
NameTail(n1) ==
    The({ JoinParts(DropUnitsAtStart(DropUnitsAtEnd(SplitWords(n6)))) :
          n6 \in { Strip(DropTrailingNumber(n5)) :
          n5 \in { DropTrailingColumns(n4) :
          n4 \in { DropLeadingColumns(n3) :
          n3 \in { DropLetterColumns(n2) :
          n2 \in { RemovePrefixes(Strip(n1), 1) } } } } } })

\* name_part after every cleaning step, for a line with no line around it
CleanName(name_part, stt_val, unit) ==
    The({ NameTail(n1) : n1 \in { NameHead(name_part, stt_val, unit) } })

\* extract_services_from_text(full_text) for a text of one line; unit is the
\* unit the loop over COMMON_UNITS meets first at the end of the last word
extract_services_from_text(full_text, unit) ==
    The({ IF ~sp.ok THEN <<>>
          ELSE The({ IF IsJunkName(name) THEN <<>>
                     ELSE The({ << [name |-> name,
                                    qty |-> format_price_value(n.qty),
                                    unit_price |-> format_price_value(n.unit_price),
                                    amount |-> format_price_value(n.amount),
                                    tax_rate |-> sp.tax_rate] >> :
                                n \in { FixSmallAmount(PickNumbers(sp.nums)) } }) :
                     name \in { CleanName(sp.name_part, sp.stt, unit) } }) :
          sp \in { LineSplit(Strip(full_text)) } })

(***************************************************************************)
(* The item lines of the model: a sequence number, an optional separator   *)
(* token, the words of the name, a unit word, the numbers and an optional  *)
(* tax tail.                                                               *)
(***************************************************************************)
SttTokens == { <<"1">>, <<"1", ".">>, <<"1", "2">> }

SepTokens == { <<>>, <<"|">>, <<"-">> }

ItemNames ==
    { <<<<"C", "o", "m">>, <<"g", "a">>, <<"n", "u", "o", "n", "g">>>>,
      <<<<"B", "i", "a">>>>,
      <<<<"C", "o", "m">>, <<"P", "h", "a", "n">>>>,
      <<<<"D", "u", "o", "n", "g">>, <<"k", "i", "l", "o", "g", "r", "a", "m">>>>,
      <<<<"P", "h", "u">>, <<"t", "h", "u">>>>,
      <<<<"N", "u", "o", "c">>, <<"s", "u", "o", "i">>, <<"5", "0", "0">>>>,
      <<<<"C", "a">>>>,
      <<<<"T", "r", "a">>, <<"d", "a">>>>,
      <<<<"L", "a", "u">>, <<"T", "h", "a", "i">>>>,
      <<<<"V", "e">>, <<"t", "h", "a", "n", "g">>, <<"1", "1">>, <<"n", "a", "m">>, <<"2", "0", "2", "5">>>> }

UnitTokens == { <<"P", "H", "A", "N">>, <<"L", "o", "n">>, <<"D", "i", "a">>, <<"T", "u", "i">> }

NumberTriples ==
    { <<<<"2">>, <<"4", "5", ".", "0", "0", "0">>, <<"9", "0", ".", "0", "0", "0">>>>,
      <<<<"1">>, <<"1", ".", "2", "6", "0", ".", "0", "0", "0">>, <<"1", ".", "2", "6", "0", ".", "0", "0", "0">>>>,
      <<<<"1", "0">>, <<"5", "0", "0", "0">>, <<"5", "0", "0", "0", "0">>>> }

TaxTails == { <<>>, <<"8", "%", " ", "7", ".", "2", "0", "0">> }

\* the text of the line: its parts joined by single blanks
ItemLineText(src) ==
    JoinParts(SelectSeq(<<src.stt, src.sep>> \o src.words \o <<src.unit>> \o src.nums \o <<src.tail>>,
                        LAMBDA p : p # <<>>))

ItemLines ==
    { [stt |-> stt, sep |-> sep, words |-> words, unit |-> unit, nums |-> nums, tail |-> tail] :
        stt \in SttTokens, sep \in SepTokens, words \in ItemNames, unit \in UnitTokens,
        nums \in NumberTriples, tail \in TaxTails }

ServiceInit ==
    /\ ServiceIdle
    /\ pc = "idle"
    /\ doc = NoDoc
    /\ srcIsPath = FALSE
    /\ OCR_AVAILABLE = TRUE
    /\ data = NewRecord
    /\ line_items = <<>>
    /\ raised = FALSE
    /\ via = ""
    /\ MoneyIdle /\ ValIdle /\ BatchIdle /\ ServiceRestIdle

\* the caller hands a text of one line to extract_services_from_text
ReadItemLine ==
    /\ sPc = "idle"
    /\ \E src \in ItemLines :
        /\ sSrc' = src
        /\ sText' = ItemLineText(src)
    /\ sPc' = "called"
    /\ UNCHANGED sItems
    /\ UNCHANGED <<moneyVars, docVars, valVars, batchVars, serviceRest>>

\* extract_services_from_text(full_text) runs and returns services
CallExtractServices ==
    /\ sPc = "called"
    /\ \E unit \in UnitChoices(Strip(sText)) :
        sItems' = extract_services_from_text(sText, unit)
    /\ sPc' = "returned"
    /\ UNCHANGED <<sSrc, sText>>
    /\ UNCHANGED <<moneyVars, docVars, valVars, batchVars, serviceRest>>

ServiceNext == ReadItemLine \/ CallExtractServices

ServiceSpec == ServiceInit /\ [][ServiceNext]_vars

\* the line has the shape of an item line: a sequence number with its
\* separator, name words, a unit of COMMON_UNITS and three numbers
IsItemLineShape(src) ==
    /\ src.words # <<>>
    /\ ToUpper(src.unit) \in COMMON_UNITS
    /\ Len(src.nums) = 3
    /\ src.tail = <<>>

\* C16: a line made of a sequence number with its separator, name words, a
\* unit token and three numbers yields exactly one item, whose name is the
\* words between the sequence number and the last unit token and whose qty,
\* unit_price and amount are the three numbers in order.
C16_LineItemBoundary ==
    (sPc = "returned" /\ IsItemLineShape(sSrc)) =>
        /\ Len(sItems) = 1
        /\ sItems[1].name = JoinParts(sSrc.words)
        /\ StripSeparators(sItems[1].qty) = StripSeparators(sSrc.nums[1])
        /\ StripSeparators(sItems[1].unit_price) = StripSeparators(sSrc.nums[2])
        /\ StripSeparators(sItems[1].amount) = StripSeparators(sSrc.nums[3])

(***************************************************************************)
(* Item lines that carry five numbers or more: quantity, unit price, a     *)
(* discount or service charge, the amount, the tax and the total.          *)
(***************************************************************************)
Quantities == { M(1), M(2), M(10) }

UnitPrices == { M(45000), M(500000) }

\* the column between the unit price and the amount
ThirdColumns == { M(0), M(5000), M(50000), M(90000), M(600000), M(1000000) }

FourthColumns == { M(8), M(45000), M(90000), M(450000), M(1000000), M(5000000) }

TrailingColumns == { <<M(80000)>>, <<M(80000), M(1080000)>> }

DiscountLines ==
    { [stt |-> <<"1">>, sep |-> <<>>, words |-> words, unit |-> <<"P", "H", "A", "N">>,
       nums |-> <<q, p, c2, c3>> \o rest, tail |-> <<>>] :
        words \in { <<<<"C", "o", "m">>, <<"g", "a">>, <<"n", "u", "o", "n", "g">>>>,
                    <<<<"L", "a", "u">>, <<"T", "h", "a", "i">>>> },
        q \in Quantities, p \in UnitPrices, c2 \in ThirdColumns, c3 \in FourthColumns,
        rest \in TrailingColumns }

\* the caller hands a line of five numbers or more to extract_services_from_text
ReadDiscountLine ==
    /\ sPc = "idle"
    /\ \E src \in DiscountLines :
        /\ sSrc' = src
        /\ sText' = ItemLineText(src)
    /\ sPc' = "called"
    /\ UNCHANGED sItems
    /\ UNCHANGED <<moneyVars, docVars, valVars, batchVars, serviceRest>>

AmountNext == ReadDiscountLine \/ CallExtractServices

AmountSpec == ServiceInit /\ [][AmountNext]_vars

\* the integer a number of the line denotes, its separators of thousands dropped
NumValue(s) == DigitsValue(StripSeparators(s))

\* the distance of a candidate column from quantity * unit price
Distance(cand, nums) == Abs(NumValue(cand) - NumValue(nums[1]) * NumValue(nums[2]))

\* C25: on an item line with five numbers or more the quantity and the unit
\* price of the item are the first two numbers, and the amount is the one of
\* the two candidate columns (the third and the fourth number) that is
\* numerically closer to quantity * unit price
C25_ClosestCandidate ==
    (sPc = "returned" /\ Len(sSrc.nums) >= 5) =>
        \A i \in 1..Len(sItems) :
            /\ NumValue(sItems[i].qty) = NumValue(sSrc.nums[1])
            /\ NumValue(sItems[i].unit_price) = NumValue(sSrc.nums[2])
            /\ Distance(sSrc.nums[4], sSrc.nums) < Distance(sSrc.nums[3], sSrc.nums)
                  => NumValue(sItems[i].amount) = NumValue(sSrc.nums[4])
            /\ Distance(sSrc.nums[3], sSrc.nums) < Distance(sSrc.nums[4], sSrc.nums)
                  => NumValue(sItems[i].amount) = NumValue(sSrc.nums[3])

(***************************************************************************)
(* The batch loops step by step: the names data and line_items of the loop *)
(* stay bound to the record of the document before until the next call     *)
(* returns.                                                                *)
(***************************************************************************)
MaxIndepBatch == 2

\* the documents of the batches: amounts under their labels, line items,
\* tax per rate, a read that fails, a scanned document
IndepDocs ==
    { TextDoc([NoMatch EXCEPT !.fields = [FullFields EXCEPT ![SELLER] = S_HIGHLANDS],
                              !.pre = M(1000000), !.vat = M(80000)]),
      TextDoc([NoMatch EXCEPT !.fields = FullFields, !.pre = M(1000000),
                              !.services = <<Item(N_XANG, 1000000, <<>>)>>]),
      TextDoc([NoMatch EXCEPT !.fields = FullFields,
                              !.multi = [NoFields EXCEPT ![T0] = <<"0">>, ![T8] = M(80000)]]),
      [layer |-> "raises", ocr_text |-> "blank", hidden |-> <<>>, fallback |-> "none",
       m |-> [NoMatch EXCEPT !.fields = FullFields, !.pre = M(1000000)], o |-> NoOcr,
       hd |-> NoHd],
      ScanDoc([NoOcr EXCEPT !.seller = S_HIGHLANDS, !.vat = M(80000), !.pct = "8"], NoHd) }

\* an uploaded file: its document, and whether seek(0) on it raises
IndepFiles ==
    { [doc |-> d, seek_fails |-> FALSE] : d \in IndepDocs }
      \cup { [doc |-> d, seek_fails |-> TRUE] : d \in { dd \in IndepDocs : dd.layer = "empty" } }

IndepBatches == UNION { [1..n -> IndepFiles] : n \in 1..MaxIndepBatch }

IndepInit ==
    /\ IndepIdle
    /\ loop \in {"app", "main"}
    /\ category_select \in {"auto", "fixed"}
    /\ report_type \in {"business", "accounting"}
    /\ loop = "main" => (category_select = "auto" /\ report_type = "business")
    /\ files \in IndepBatches
    /\ loop = "main" => \A i \in 1..Len(files) : ~files[i].seek_fails
    /\ idx = 1
    /\ all_rows = <<>>
    /\ all_validations = <<>>
    /\ pc = "idle"
    /\ doc = NoDoc
    /\ srcIsPath = FALSE
    /\ OCR_AVAILABLE \in BOOLEAN
    /\ data = NewRecord
    /\ line_items = <<>>
    /\ raised = FALSE
    /\ via = ""
    /\ MoneyIdle /\ ValIdle /\ IndepRestIdle

\* data, line_items = extract_invoice_data(...): the call creates its record
\* and the loop binds data and line_items to what it returns
IndepExtract ==
    /\ iPc = "loop"
    /\ idx <= Len(files)
    /\ \E r \in { ExtractBody(RecordAtEntry(data), files[idx].doc, loop = "main", OCR_AVAILABLE) } :
        /\ data' = r.data
        /\ line_items' = r.line_items
    /\ iPc' = "extracted"
    /\ UNCHANGED <<gTables, pc, doc, srcIsPath, OCR_AVAILABLE, raised, via>>
    /\ UNCHANGED <<batchVars, moneyVars, valVars, indepRest>>

\* the rest of the body of the loop of app.py: seek(0), validation,
\* classification and rows, or the handler of the try
IndepAppRows ==
    /\ iPc = "extracted"
    /\ loop = "app"
    /\ IF files[idx].seek_fails
       THEN /\ all_validations' =
                   Append(all_validations,
                          [file |-> idx, issues |-> <<Issue(FILE_ISSUE, "error", "exception")>>])
            /\ all_rows' = all_rows
       ELSE \E final_category \in { FinalCategory(data, line_items, category_select) } :
            /\ all_validations' =
                   Append(all_validations, [file |-> idx, issues |-> validate_invoice_data(data)])
            /\ all_rows' = all_rows \o InvoiceRows(idx, final_category, data, report_type)
    /\ idx' = idx + 1
    /\ iPc' = "loop"
    /\ UNCHANGED <<gTables, loop, category_select, report_type, files>>
    /\ UNCHANGED <<docVars, moneyVars, valVars, indepRest>>

\* the rest of the body of the loop of main()
IndepMainRow ==
    /\ iPc = "extracted"
    /\ loop = "main"
    /\ all_rows' = Append(all_rows,
                          Row(idx, MainCategory(data, line_items), "",
                              data[PRE], data[TAX], data[TOTAL]))
    /\ idx' = idx + 1
    /\ iPc' = "loop"
    /\ UNCHANGED <<gTables, loop, category_select, report_type, files, all_validations>>
    /\ UNCHANGED <<docVars, moneyVars, valVars, indepRest>>

IndepNext == IndepExtract \/ IndepAppRows \/ IndepMainRow

IndepSpec == IndepInit /\ [][IndepNext]_vars

\* what the document gives when it is the only document of the batch
AloneResult(f) == extract_invoice_data(f.doc, loop = "main", OCR_AVAILABLE)

\* the rows of the loop for the result r of the document
AloneRows(i, f, r) ==
    IF loop = "main"
    THEN <<Row(i, MainCategory(r.data, r.line_items), "", r.data[PRE], r.data[TAX], r.data[TOTAL])>>
    ELSE IF f.seek_fails THEN <<>>
    ELSE InvoiceRows(i, FinalCategory(r.data, r.line_items, category_select), r.data, report_type)

\* the validation entries of the loop for the result r of the document
AloneIssues(i, f, r) ==
    IF loop = "main" THEN <<>>
    ELSE IF f.seek_fails
    THEN <<[file |-> i, issues |-> <<Issue(FILE_ISSUE, "error", "exception")>>]>>
    ELSE The({ <<[file |-> i, issues |-> validate_invoice_data(d)]>> : d \in { r.data } })

RowsOfFile(i) == SelectSeq(all_rows, LAMBDA r : r.file = i)

IssuesOfFile(i) == SelectSeq(all_validations, LAMBDA v : v.file = i)

SHY == "^"

\* ignore_mst, the same list at lines 429, 1216 and 1365
ignore_mst ==
    << <<"0", "1", "0", "6", "8", "6", "9", "7", "3", "8">>,
       <<"0", "1", "0", "0", "6", "8", "4", "3", "7", "8">>,
       <<"0", "1", "0", "1", "2", "4", "5", "1", "7", "1">>,
       <<"0", "3", "0", "5", "4", "8", "2", "8", "6", "2">>,
       <<"0", "1", "0", "3", "2", "4", "3", "1", "9", "5">>,
       <<"0", "1", "0", "1", "3", "6", "0", "6", "9", "7">> >>

\* any(ign in val for ign in ignore_mst)
ContainsIgnoredNever(val) == FALSE

ContainsIgnored(val) == \E i \in 1..Len(ignore_mst) : IsSubstr(ignore_mst[i], val)

\* any(val in ign for ign in ignore_mst)
PartOfIgnored(val) == \E i \in 1..Len(ignore_mst) : IsSubstr(val, ignore_mst[i])

\* s.replace(c, '') for every c of cs
RemoveChars(s, cs) == SelectSeq(s, LAMBDA c : c \notin cs)

\* Priority 0, the spaced pattern: written without a test of the field
SpacedMst(mst, raw) ==
    IF raw = <<>> THEN mst
    ELSE CHOOSE r \in { IF ~ContainsIgnored(potential_mst) THEN potential_mst ELSE mst :
                        potential_mst \in { StripWs(RemoveChars(raw, {" "})) } } : TRUE

\* Priority 0.5, VAT Code, and the normalized patterns at 1757-1769 and
\* 472-480: a run of 10 to 14 digits
DigitRunMst(mst, raw) ==
    IF mst # <<>> \/ raw = <<>> THEN mst
    ELSE CHOOSE r \in { IF ~ContainsIgnored(cand) THEN cand ELSE mst :
                        cand \in { StripWs(raw) } } : TRUE

\* Priority 1, the block of the seller
SellerBlockMst(mst, raw) ==
    IF mst # <<>> \/ raw = <<>> THEN mst
    ELSE CHOOSE r \in { IF Len(potential_mst) >= 10 /\ ~ContainsIgnored(potential_mst)
                        THEN potential_mst ELSE mst :
                        potential_mst \in { StripWs(RemoveChars(raw, {" "})) } } : TRUE

\* re.match(r'[\d-]+', raw_mst): the run at the head, <<>> for no match
HeadCode(raw_mst) == SubSeq(raw_mst, 1, RunLen(raw_mst, 1, Digits \cup {"-"}))

\* Priority 2: the candidates of the standard pattern; caps[i].bad says that
\* the line of the candidate names a provider
StandardCandidate(cap) ==
    CHOOSE r \in { IF val # <<>> /\ Len(val) >= 9 /\ Len(val) <= 14
                      /\ ~(ContainsIgnored(val) \/ PartOfIgnored(val)) /\ ~cap.bad
                   THEN val ELSE <<>> :
                   val \in { HeadCode(StripWs(RemoveChars(cap.raw, {" "}))) } } : TRUE

\* the first value of the captures that the stage accepts, <<>> for none
FirstAcceptedCode(caps, Candidate(_)) ==
    CHOOSE r \in { IF hits = {} THEN <<>>
                   ELSE Candidate(caps[CHOOSE i \in hits : \A j \in hits : i <= j]) :
                   hits \in { { i \in 1..Len(caps) : Candidate(caps[i]) # <<>> } } } : TRUE

StandardMst(mst, caps) ==
    IF mst # <<>> THEN mst
    ELSE CHOOSE r \in { IF c # <<>> THEN c ELSE mst :
                        c \in { FirstAcceptedCode(caps, StandardCandidate) } } : TRUE

\* tax_patterns at 1730-1753
TaxPatternCandidate(cap) ==
    CHOOSE r \in { IF Len(clean) >= 10 /\ (\E i \in 1..Len(clean) : clean[i] \in Digits)
                      /\ ~ContainsIgnored(clean) /\ ~PartOfIgnored(clean)
                   THEN clean ELSE <<>> :
                   clean \in { StripWs(RemoveChars(cap.raw, {SHY, " "})) } } : TRUE

TaxPatternMst(mst, caps) ==
    IF mst # <<>> THEN mst
    ELSE CHOOSE r \in { IF c # <<>> THEN c ELSE mst :
                        c \in { FirstAcceptedCode(caps, TaxPatternCandidate) } } : TRUE

\* clean_string_value(val) on a value that can hold line ends and soft
\* hyphens: " ".join(val.split()) after the soft hyphens are removed
CleanCodeValue(val) ==
    JoinParts(SplitWords([i \in 1..Len(RemoveChars(val, {SHY})) |->
                 IF RemoveChars(val, {SHY})[i] = NL THEN " " ELSE RemoveChars(val, {SHY})[i]]))

\* mst_patterns of extract_ocr_invoice_fields
OcrCandidate(cap) ==
    CHOOSE r \in { IF Len(val) >= 10 /\ Len(val) <= 14 /\ ~ContainsIgnored(val) /\ ~cap.bad
                   THEN val ELSE <<>> :
                   val \in { StripWs(RemoveChars(cap.raw, {" ", ".", "-", SHY})) } } : TRUE

OcrMst(caps) == FirstAcceptedCode(caps, OcrCandidate)

\* the crop of the high-resolution pass
HdCandidate(cap) ==
    CHOOSE r \in { IF Len(mst_val) >= 10 /\ ~ContainsIgnored(mst_val) THEN mst_val ELSE <<>> :
                   mst_val \in { StripWs(RemoveChars(cap.raw, {" ", "-"})) } } : TRUE

HdMst(mst, caps) ==
    IF mst # <<>> THEN mst
    ELSE CHOOSE r \in { IF c # <<>> THEN c ELSE mst :
                        c \in { FirstAcceptedCode(caps, HdCandidate) } } : TRUE

(***************************************************************************)
(* What the patterns can capture.                                          *)
(***************************************************************************)
RawCaptures ==
    { <<"0", "1", "0", "6", "8", "6", "9", "7", "3", "8">>,
      <<"0", "1", "0", "6", "8", "6", "9", "7", "3", "8", "-", "0", "0", "1">>,
      <<"0", "1", "0", "6", "8", "6", "9", "7", "3">>,
      <<"0", " ", "1", " ", "0", " ", "6", " ", "8", " ", "6", " ", "9", " ", "7", " ", "3", " ", "8">>,
      <<"0", " ", "3", " ", "0", " ", "0", " ", "5", " ", "5", " ", "5", " ", "4", " ", "5", " ", "0">>,
      <<"0", "3", "0", "0", "5", "5", "5", "4", "5", "0">>,
      <<"0", "3", "0", "0", "5", "5", "5", "4", "5">>,
      <<"0", "1", "0", "6", "8", "-", "6", "9", "7", "3", "8">>,
      <<"0", "1", "0", "6", "8", NL, "6", "9", "7", "3", "8">>,
      <<"0", "3", "0", "0", "5", "5", "5", "4", "5", "0", NL>>,
      <<"0", "1", "0", "1", "3", "6", "0", "6", "9", "7">>,
      <<"0", "1", "0", "6", "8", SHY, "6", "9", "7", "3", "8">>,
      <<"0", " ", "1", " ", "0", " ", "6", " ", "8", " ", "6", " ", "9", " ", "7", " ", "3", NL, "8">>,
      <<"0", "3", "0", "0", "5", "5", "5", "4", "5", "0", "-", "0", "0", "1">> }

\* the position after n groups \d\s+ from s[i] on, 0 when there are fewer
RECURSIVE AfterSpacedDigits(_, _, _)
AfterSpacedDigits(s, i, n) ==
    IF n = 0 THEN i
    ELSE IF i + 1 <= Len(s) /\ s[i] \in Digits /\ s[i + 1] \in {" ", NL}
    THEN AfterSpacedDigits(s, i + 1 + RunLen(s, i + 1, {" ", NL}), n - 1)
    ELSE 0

\* (?:\d\s+){9,}[\d\s-]*\d
SpacedShape(raw) ==
    \E p \in { AfterSpacedDigits(raw, 1, 9) } :
        /\ p # 0 /\ p <= Len(raw)
        /\ raw[Len(raw)] \in Digits
        /\ \A i \in p..Len(raw) : raw[i] \in Digits \cup {" ", NL, "-"}

\* \d{10,14} and [0-9]{10,14}
DigitRunShape(raw) == AllDigits(raw) /\ Len(raw) >= 10 /\ Len(raw) <= 14

\* [0-9\s-]+ and [\d\-\s]+
BlockShape(raw) == raw # <<>> /\ \A i \in 1..Len(raw) : raw[i] \in Digits \cup {" ", NL, "-"}

\* [\d\-\u00AD\s]+
SoftHyphenShape(raw) ==
    raw # <<>> /\ \A i \in 1..Len(raw) : raw[i] \in Digits \cup {" ", NL, "-", SHY}

MaxCaptures == 2

\* the captures of the patterns that can match several times: a provider
\* code, a part of one, a code of ten and of nine digits, a code with a
\* hyphen and one with a soft hyphen inside
RepeatedCaptures ==
    { <<"0", "1", "0", "6", "8", "6", "9", "7", "3", "8">>,
      <<"0", "1", "0", "6", "8", "6", "9", "7", "3">>,
      <<"0", "3", "0", "0", "5", "5", "5", "4", "5", "0">>,
      <<"0", "3", "0", "0", "5", "5", "5", "4", "5">>,
      <<"0", "1", "0", "6", "8", "-", "6", "9", "7", "3", "8">>,
      <<"0", "1", "0", "6", "8", SHY, "6", "9", "7", "3", "8">> }

\* the capture that can also stand on a line that names a provider
ProviderLineCaptures == { <<"0", "3", "0", "0", "5", "5", "5", "4", "5", "0">> }

\* the captures of a pattern that can match several times, each with the
\* verdict on its line
CaptureLists(Shape(_)) ==
    UNION { [1..n -> { c \in [raw : RepeatedCaptures, bad : BOOLEAN] :
                         Shape(c.raw) /\ (c.bad => c.raw \in ProviderLineCaptures) }] :
            n \in 0..MaxCaptures }

\* the capture of a pattern that is searched once, <<>> for no match
OneCapture(Shape(_)) == { <<>> } \cup { x \in RawCaptures : Shape(x) }

(***************************************************************************)
(* The cascade step by step, on the text path and on the OCR path.         *)
(***************************************************************************)
MstInit ==
    /\ MstIdle
    /\ pc = "idle"
    /\ doc = NoDoc
    /\ srcIsPath = FALSE
    /\ OCR_AVAILABLE \in BOOLEAN
    /\ data = NewRecord
    /\ line_items = <<>>
    /\ raised = FALSE
    /\ via = ""
    /\ MoneyIdle /\ ValIdle /\ BatchIdle /\ MstRestIdle

\* a stage of the cascade: from is the place before it, to the place after,
\* stage its name, new the value it leaves in the field, seen the captures
\* of a stage that wrote the field
MstStage(from, to, stage, new, seen) ==
    /\ tPc = from
    /\ tPc' = to
    /\ tMst' = new
    /\ tBy' = IF new # tMst THEN stage ELSE tBy
    /\ tSeen' = IF new # tMst THEN seen ELSE <<>>
    /\ UNCHANGED <<moneyVars, docVars, valVars, batchVars, mstRest>>

\* the document has a text layer or has none
MstCall ==
    \E to \in {"spaced", "ocr"} : MstStage("idle", to, "", <<>>, <<>>)

SpacedStage ==
    \E raw \in OneCapture(SpacedShape) :
        MstStage("spaced", "vat_code", "spaced", SpacedMst(tMst, raw), <<raw>>)

VatCodeStage ==
    \E raw \in OneCapture(DigitRunShape) :
        MstStage("vat_code", "seller_block", "vat_code", DigitRunMst(tMst, raw), <<raw>>)

SellerBlockStage ==
    \E raw \in OneCapture(BlockShape) :
        MstStage("seller_block", "standard", "seller_block", SellerBlockMst(tMst, raw), <<raw>>)

StandardStage ==
    \E caps \in CaptureLists(BlockShape) :
        MstStage("standard", "tax_patterns", "standard", StandardMst(tMst, caps),
                 [i \in 1..Len(caps) |-> caps[i].raw])

TaxPatternsStage ==
    \E caps \in CaptureLists(SoftHyphenShape) :
        MstStage("tax_patterns", "petrolimex", "tax_patterns", TaxPatternMst(tMst, caps),
                 [i \in 1..Len(caps) |-> caps[i].raw])

PetrolimexStage ==
    \E raw \in OneCapture(DigitRunShape) :
        MstStage("petrolimex", "cleanup", "petrolimex", DigitRunMst(tMst, raw), <<raw>>)

\* data[k] = clean_string_value(v), then return data, line_items
FinalCleanupStage ==
    MstStage("cleanup", "returned", "cleanup", CleanCodeValue(tMst), <<>>)

\* extract_ocr_invoice_fields: mst_patterns, whose value the merge copies
OcrPatternsStage ==
    \E caps \in CaptureLists(SoftHyphenShape) :
        MstStage("ocr", "ocr_fallback", "ocr", OcrMst(caps), [i \in 1..Len(caps) |-> caps[i].raw])

OcrFallbackStage ==
    \E raw \in OneCapture(DigitRunShape) :
        MstStage("ocr_fallback", "hd", "ocr_fallback", DigitRunMst(tMst, raw), <<raw>>)

\* the high-resolution pass reads the crop when the field is blank, then
\* return data, line_items
HdStage ==
    \E caps \in CaptureLists(BlockShape) :
        MstStage("hd", "returned", "hd",
                 IF OCR_AVAILABLE THEN HdMst(tMst, caps) ELSE tMst,
                 [i \in 1..Len(caps) |-> caps[i].raw])

MstNext ==
    \/ MstCall \/ SpacedStage \/ VatCodeStage \/ SellerBlockStage \/ StandardStage
    \/ TaxPatternsStage \/ PetrolimexStage \/ FinalCleanupStage
    \/ OcrPatternsStage \/ OcrFallbackStage \/ HdStage

MstSpec == MstInit /\ [][MstNext]_vars

\* the provider codes as a set
ProviderCodes == { ignore_mst[i] : i \in 1..Len(ignore_mst) }

AlnumChars == UpperAZ \cup LowerAZ \cup Digits

\* \w of the capture groups [A-Za-z0-9_]
WordChars == AlnumChars \cup {"_"}

\* [A-Z0-9\-] under re.IGNORECASE, and [A-Za-z0-9\-\u00AD]
CodeDashChars == AlnumChars \cup {"-"}

CqtChars == CodeDashChars \cup {SHY}

\* [A-F0-9], matched without re.IGNORECASE
HexUpperChars == {"A", "B", "C", "D", "E", "F"} \cup Digits

\* [a-f0-9] under re.IGNORECASE
HexChars == HexUpperChars \cup {"a", "b", "c", "d", "e", "f"}

\* what a group (cls+) takes at the start of s
Capture(s, cls) == SubSeq(s, 1, RunLen(s, 1, cls))

\* the k-th smallest element of a set of numbers
Nth(S, k) == CHOOSE i \in S : Cardinality({ j \in S : j < i }) = k - 1

\* the words of s between \b and \b, in the order of the text
Words(s) ==
    LET starts == { i \in 1..Len(s) : s[i] \in WordChars /\ (i = 1 \/ s[i - 1] \notin WordChars) }
    IN [k \in 1..Cardinality(starts) |->
           SubSeq(s, Nth(starts, k), Nth(starts, k) + RunLen(s, Nth(starts, k), WordChars) - 1)]

RECURSIVE Flatten(_)
Flatten(ss) == IF ss = <<>> THEN <<>> ELSE Head(ss) \o Flatten(Tail(ss))

\* the words of a line after its label
LineWords(line) ==
    Flatten([i \in 1..Len(line.nums) |-> Words(line.nums[i])]) \o Words(line.code)

BucketLine(label, rate, nums) == [label |-> label, rate |-> rate, nums |-> nums, code |-> <<>>]

CodeLine(label, code) == [label |-> label, rate |-> <<>>, nums |-> <<>>, code |-> code]

\* the state of the cascade: the dictionary and the rule that wrote each field
Put(st, f, v, rule) == [data |-> [st.data EXCEPT ![f] = v], by |-> [st.by EXCEPT ![f] = rule]]

\* re.search(pattern, full_text): group 1 of the first match
FirstCapture(lines, label, cls) ==
    LET hits == { i \in 1..Len(lines) :
                    lines[i].label = label /\ Capture(lines[i].code, cls) # <<>> }
    IN IF hits = {} THEN <<>> ELSE Capture(lines[Nth(hits, 1)].code, cls)

\* "Ma (cua) (CQ|co quan) thue" followed by [A-Z0-9\-]+
cqt_match(lines) == FirstCapture(lines, "Ma cua co quan thue", CodeDashChars)

CqtMatch(st, lines) ==
    IF cqt_match(lines) # <<>> THEN Put(st, CQT, cqt_match(lines), "cqt_match") ELSE st

security_patterns ==
    << [label |-> "Ma tra cuu hoa don", cls |-> AlnumChars],
       [label |-> "Ma nhan hoa don (Code for checking)", cls |-> AlnumChars],
       [label |-> "Ma nhan hoa don", cls |-> AlnumChars],
       [label |-> "Ma tra cuu (Lookup code)", cls |-> WordChars],
       [label |-> "Ma tra cuu hoa don (Invoice code)", cls |-> WordChars],
       [label |-> "Ma tra cuu", cls |-> WordChars],
       [label |-> "Ma tra cuu(Invoice code)", cls |-> WordChars],
       [label |-> "Ma so bi mat", cls |-> WordChars],
       [label |-> "Security Code)", cls |-> AlnumChars],
       [label |-> "Ma tra cuu", cls |-> AlnumChars],
       [label |-> "Lookup code", cls |-> AlnumChars],
       [label |-> "Ma tra cuu, khong dau", cls |-> AlnumChars],
       [label |-> "Ma tra cuu (Code)", cls |-> AlnumChars],
       [label |-> "voi ma", cls |-> AlnumChars],
       [label |-> "nhap ma", cls |-> AlnumChars],
       [label |-> "provided code", cls |-> AlnumChars] >>

\* the words that mark a capture as a part of a URL or of a heading
LookupJunk ==
    << <<"h", "t", "t", "p">>,
       <<"t", "r", "a", "c", "u", "u">>,
       <<"w", "e", "b", "s", "i", "t", "e">>,
       <<"i", "n", "v", "o", "i", "c", "e">>,
       <<"c", "h", "e", "c", "k">>,
       <<".", "c", "o", "m">>,
       <<".", "v", "n">>,
       <<"p", "l", "e", "a", "s", "e">>,
       <<"v", "u", "i", " ", "l", "o", "n", "g">>,
       <<"q", "u", "y", " ", "k", "h", "a", "c", "h">>,
       <<"a", "c", "c", "e", "s", "s">> >>

HasLookupJunk(code) == \E i \in 1..Len(LookupJunk) : IsSubstr(LookupJunk[i], ToLower(code))

\* the body of the loop for security_patterns[i]: "next" when the loop goes
\* on with the next pattern, "break" when it stops
SecurityPattern(st, lines, i) ==
    LET code == FirstCapture(lines, security_patterns[i].label, security_patterns[i].cls)
    IN IF code = <<>> \/ HasLookupJunk(code) THEN [st |-> st, exit |-> "next"]
       ELSE IF 5 <= Len(code) /\ Len(code) <= 35
       THEN [st |-> Put(st, LOOKUP, code, "security_patterns"), exit |-> "break"]
       ELSE IF Len(code) > 35 /\ Blank(st.data[CQT])
       THEN [st |-> Put(st, CQT, code, "security_patterns"), exit |-> "next"]
       ELSE [st |-> st, exit |-> "next"]

\* lines that name a serial number or a signature
SerialLabels == {"Serial number", "Serial no", "Ky dien tu", "Chu ky so"}

\* re.findall(r'\b[A-F0-9]{8,}\b', footer_text) with the tests of the loop; the
\* texts of the family are shorter than the 500 characters of the footer
FooterPotentials(lines) ==
    SelectSeq(Flatten([i \in 1..Len(lines) |->
                          IF lines[i].label \in SerialLabels THEN <<>> ELSE LineWords(lines[i])]),
              LAMBDA p : /\ Len(p) >= 8
                         /\ \A j \in 1..Len(p) : p[j] \in HexUpperChars
                         /\ Len(p) >= 10
                         /\ ~AllDigits(p)
                         /\ ~IsSubstr(<<"0", "1", "0", "0">>, p)
                         /\ ~IsSubstr(<<"0", "3", "0">>, p))

FooterFallback(st, lines) ==
    IF Blank(st.data[LOOKUP]) /\ FooterPotentials(lines) # <<>>
    THEN Put(st, LOOKUP, FooterPotentials(lines)[1], "footer")
    ELSE st

cqt_patterns ==
    << [label |-> "Ma cua co quan thue", cls |-> CqtChars],
       [label |-> "Ma cua co quan thue (Tax authority code)", cls |-> CqtChars],
       [label |-> "Ma CQT (Code)", cls |-> CqtChars],
       [label |-> "Ma CQT", cls |-> CqtChars],
       [label |-> "MCQT", cls |-> CqtChars],
       [label |-> "Tax authority code", cls |-> CqtChars] >>

\* match.group(1).strip().replace('\u00AD', '-')
CqtCode(s) == [i \in 1..Len(Strip(s)) |-> IF Strip(s)[i] = SHY THEN "-" ELSE Strip(s)[i]]

\* the body of the loop for cqt_patterns[i]
CqtPattern(st, lines, i) ==
    LET code == FirstCapture(lines, cqt_patterns[i].label, cqt_patterns[i].cls)
    IN IF code = <<>> THEN [st |-> st, exit |-> "next"]
       ELSE [st |-> Put(st, CQT, CqtCode(code), "cqt_patterns"), exit |-> "break"]

ProxJunk ==
    { <<"w", "e", "b", "s", "i", "t", "e">>, <<"h", "t", "t", "p">>, <<"h", "t", "t", "p", "s">>, <<"l", "i", "n", "k">>, <<"t", "a", "i">>, <<"v", "n", "b", "o", "x">>, <<"v", "n", "p", "t">>, <<"i", "n", "v", "o", "i", "c", "e">> }

\* a line that is a link, with or without a code after it
IsLink(line) == line.label = "https"

\* what stands after the white space that follows a link: the code on its
\* line, or the line below when that line starts with its code
AfterLink(lines, i) ==
    IF lines[i].code # <<>> THEN lines[i].code
    ELSE IF i < Len(lines) /\ lines[i + 1].label = "" THEN lines[i + 1].code
    ELSE <<>>

\* link, white space, code: ([A-Za-z0-9]{6,50})\b
LinkThenCode(lines) ==
    Flatten([i \in 1..Len(lines) |->
        IF IsLink(lines[i]) /\ Len(Capture(AfterLink(lines, i), AlnumChars)) \in 6..50
        THEN <<Capture(AfterLink(lines, i), AlnumChars)>> ELSE <<>>])

\* code, white space, link: the last word of the line before a link (the
\* words of a link itself are shorter than six characters)
CodeThenLink(lines) ==
    Flatten([i \in 1..Len(lines) |->
        IF i > 1 /\ IsLink(lines[i]) /\ LineWords(lines[i - 1]) # <<>>
        THEN LET ws == LineWords(lines[i - 1])
                 w == ws[Len(ws)]
             IN IF Len(w) \in 6..50 /\ \A j \in 1..Len(w) : w[j] \in AlnumChars
                THEN <<w>> ELSE <<>>
        ELSE <<>>])

\* the candidates of one pattern that pass the filters of the loop
ProxAccepted(st, cands) ==
    SelectSeq(cands, LAMBDA cand :
        /\ ToLower(cand) \notin ProxJunk
        /\ ~IsSubstr(<<"t", "r", "a", "c", "u", "u">>, ToLower(cand))
        /\ ~(~Blank(st.data[MST]) /\ cand = st.data[MST])
        /\ Len(cand) \in 6..50)

ProxPatterns(st, lines) ==
    IF ~Blank(st.data[LOOKUP]) THEN st
    ELSE IF ProxAccepted(st, LinkThenCode(lines)) # <<>>
    THEN Put(st, LOOKUP, ProxAccepted(st, LinkThenCode(lines))[1], "prox_patterns")
    ELSE IF ProxAccepted(st, CodeThenLink(lines)) # <<>>
    THEN Put(st, LOOKUP, ProxAccepted(st, CodeThenLink(lines))[1], "prox_patterns")
    ELSE st

\* (pattern, column, group_idx): the label and the rate the pattern asks for
multi_col_patterns ==
    << [label |-> "Thue suat", rate |-> <<"0">>, column |-> T0, group |-> 2],
       [label |-> "Thue suat", rate |-> <<"5">>, column |-> T5, group |-> 2],
       [label |-> "Thue suat", rate |-> <<"8">>, column |-> T8, group |-> 2],
       [label |-> "Thue suat", rate |-> <<"1", "0">>, column |-> T10, group |-> 2],
       [label |-> "Thue suat khac", rate |-> <<"8">>, column |-> T8, group |-> 4],
       [label |-> "Thue suat khac", rate |-> <<"1", "0">>, column |-> T10, group |-> 4],
       [label |-> "Thue suat khac", rate |-> <<"5">>, column |-> T5, group |-> 4],
       [label |-> "Tong tien chiu thue suat", rate |-> <<"0">>, column |-> T0, group |-> 2],
       [label |-> "Tong tien chiu thue suat", rate |-> <<"5">>, column |-> T5, group |-> 2],
       [label |-> "Tong tien chiu thue suat", rate |-> <<"8">>, column |-> T8, group |-> 2],
       [label |-> "Tong tien chiu thue suat", rate |-> <<"1", "0">>, column |-> T10, group |-> 2],
       [label |-> "Thue suat GTGT, Tien thue GTGT", rate |-> <<"8">>, column |-> T8, group |-> 1],
       [label |-> "Thue suat GTGT, Tien thue GTGT", rate |-> <<"1", "0">>, column |-> T10, group |-> 1],
       [label |-> "Thue suat GTGT, Tien thue GTGT", rate |-> <<"5">>, column |-> T5, group |-> 1],
       [label |-> "Tien thue GTGT", rate |-> <<"8">>, column |-> T8, group |-> 1],
       [label |-> "Tien thue GTGT", rate |-> <<"1", "0">>, column |-> T10, group |-> 1],
       [label |-> "Tien thue GTGT", rate |-> <<"5">>, column |-> T5, group |-> 1],
       [label |-> "Tien thue", rate |-> <<"1", "0">>, column |-> T10, group |-> 1],
       [label |-> "Tien thue", rate |-> <<"8">>, column |-> T8, group |-> 1],
       [label |-> "Tien thue", rate |-> <<"5">>, column |-> T5, group |-> 1],
       [label |-> "Tien thue ...", rate |-> <<"1", "0">>, column |-> T10, group |-> 1],
       [label |-> "Tien thue ...", rate |-> <<"8">>, column |-> T8, group |-> 1],
       [label |-> "Tien thue ...", rate |-> <<"5">>, column |-> T5, group |-> 1] >>

\* the labels of the lines a pattern of multi_col_patterns matches
MultiColLabels(label) ==
    IF label = "Tien thue ..." THEN {"Tien thue", "Tien thue GTGT"} ELSE {label}

\* re.finditer(pattern, full_text): the group of every match
MultiColMatches(lines, p) ==
    Flatten([i \in 1..Len(lines) |->
        IF lines[i].label \in MultiColLabels(p.label) /\ lines[i].rate = p.rate
              /\ Len(lines[i].nums) >= p.group
        THEN <<lines[i].nums[p.group]>> ELSE <<>>])

\* if matches: data[column] = matches[-1].group(group_idx)
MultiColPattern(st, lines, i) ==
    LET matches == MultiColMatches(lines, multi_col_patterns[i])
    IN IF matches # <<>>
       THEN Put(st, multi_col_patterns[i].column, matches[Len(matches)], "multi_col_patterns")
       ELSE st

simple_patterns ==
    << [label |-> "Tong tien thue GTGT", rate |-> <<"0">>, column |-> T0],
       [label |-> "Tong tien thue GTGT", rate |-> <<"5">>, column |-> T5],
       [label |-> "Tong tien thue GTGT", rate |-> <<"8">>, column |-> T8],
       [label |-> "Tong tien thue GTGT", rate |-> <<"1", "0">>, column |-> T10],
       [label |-> "thue gtgt|VAT", rate |-> <<"0">>, column |-> T0],
       [label |-> "thue gtgt|VAT", rate |-> <<"5">>, column |-> T5],
       [label |-> "thue gtgt|VAT", rate |-> <<"8">>, column |-> T8],
       [label |-> "thue gtgt|VAT", rate |-> <<"1", "0">>, column |-> T10],
       [label |-> "Tien thue GTGT ( )", rate |-> <<"0">>, column |-> T0],
       [label |-> "Tien thue GTGT ( )", rate |-> <<"5">>, column |-> T5],
       [label |-> "Tien thue GTGT ( )", rate |-> <<"8">>, column |-> T8],
       [label |-> "Tien thue GTGT ( )", rate |-> <<"1", "0">>, column |-> T10] >>

SimpleLabels(label) ==
    CASE label = "thue gtgt|VAT" -> {"VAT", "Tien thue GTGT"}
      [] label = "Tien thue GTGT ( )" -> {"Tien thue GTGT"}
      [] OTHER -> {label}

SimpleMatches(lines, p) ==
    Flatten([i \in 1..Len(lines) |->
        IF lines[i].label \in SimpleLabels(p.label) /\ lines[i].rate = p.rate
              /\ Len(lines[i].nums) = 1
        THEN <<lines[i].nums[1]>> ELSE <<>>])

SimplePattern(st, lines, i) ==
    LET matches == SimpleMatches(lines, simple_patterns[i])
    IN IF matches # <<>>
       THEN Put(st, simple_patterns[i].column, matches[Len(matches)], "simple_patterns")
       ELSE st

\* summary_lines: (rate, num1, num2, num3) of every line that names a rate
\* after "Thue suat" and prints two or three numbers
SummaryLines(lines) ==
    Flatten([i \in 1..Len(lines) |->
        IF lines[i].label \in {"Thue suat", "Tong tien chiu thue suat"} /\ Len(lines[i].nums) >= 2
        THEN << <<DigitsValue(lines[i].rate), lines[i].nums[1], lines[i].nums[2],
                  IF Len(lines[i].nums) >= 3 THEN lines[i].nums[3] ELSE <<>> >> >>
        ELSE <<>>])

\* the summary table writes the column of every rate it names
SummaryOverride(st, lines) ==
    LET d == SummaryBuckets(st.data, SummaryLines(lines))
    IN [data |-> d,
        by |-> [f \in CascadeFields |->
                  IF \E i \in 1..Len(SummaryLines(lines)) :
                         RateKey(SummaryLines(lines)[i][1]) = f
                  THEN "summary_lines" ELSE st.by[f]]]

\* (nhap ma|provided code).*?([a-f0-9]{30,})
code_match(lines) ==
    LET hits == { i \in 1..Len(lines) :
                    /\ lines[i].label \in {"nhap ma", "provided code"}
                    /\ \E k \in 1..Len(Words(lines[i].code)) :
                           /\ Len(Words(lines[i].code)[k]) >= 30
                           /\ \A j \in 1..Len(Words(lines[i].code)[k]) :
                                  Words(lines[i].code)[k][j] \in HexChars }
    IN IF hits = {} THEN <<>>
       ELSE Capture(lines[Nth(hits, 1)].code, HexChars)

CodeMatch(st, lines) ==
    IF code_match(lines) # <<>> THEN Put(st, LOOKUP, code_match(lines), "code_match") ELSE st

\* Ma tra cuu[:\s]*([A-Z0-9-]+)
pc_match(lines) == FirstCapture(lines, "Ma tra cuu", CodeDashChars)

PcMatch(st, lines) ==
    IF pc_match(lines) # <<>> THEN Put(st, LOOKUP, pc_match(lines), "pc_match") ELSE st

(***************************************************************************)
(* The cascade of patterns step by step.                                   *)
(***************************************************************************)
MaxLines == 2

\* the lines a document of the family is written from
CascLines ==
    { BucketLine("Thue suat", <<"8">>, << <<"1", ".", "0", "0", "0", ".", "0", "0", "0">>, <<"8", "0", ".", "0", "0", "0">>, <<"1", ".", "0", "8", "0", ".", "0", "0", "0">> >>),
      BucketLine("Tong tien chiu thue suat", <<"8">>, << <<"6", "5", "5", ".", "0", "0", "0">>, <<"5", "2", ".", "4", "0", "0">>, <<"7", "0", "7", ".", "4", "0", "0">> >>),
      BucketLine("Tien thue GTGT", <<"8">>, << <<"3", "7", ".", "0", "3", "7">> >>),
      BucketLine("Tien thue", <<"8">>, << <<"1", "5", "4", ".", "5", "4", "5">> >>),
      BucketLine("Tien thue", <<"1", "0">>, << <<"9", "0", ".", "0", "0", "0">> >>),
      BucketLine("VAT", <<"8">>, << <<"1", "7", ".", "5", "9", "2">> >>),
      CodeLine("Ma cua co quan thue", <<"M", "1", "-", "2", "6", "-", "A", "B", "C", "1", "2">>),
      CodeLine("Ma CQT", <<"M", "2", "-", "2", "6", "-", "X", "Y", "Z", "3", "4">>),
      CodeLine("Ma tra cuu", <<"9", "7", "5", "1", "O", "p", "e", "r", "a", "1", "9">>),
      CodeLine("Ma tra cuu", <<"P", "C", "-", "1">>),
      CodeLine("Ma tra cuu", <<"A", "1", "B", "2", "C", "3", "D", "4", "E", "5", "A", "1", "B", "2", "C", "3", "D", "4", "E", "5", "A", "1", "B", "2", "C", "3", "D", "4", "E", "5", "A", "1", "B", "2", "C", "3", "D", "4", "E", "5">>),
      CodeLine("Ma nhan hoa don", <<"5", "c", "5", "7", "d", "3", "3">>),
      CodeLine("nhap ma", <<"e", "5", "1", "0", "0", "a", "e", "5", "1", "0", "0", "a", "e", "5", "1", "0", "0", "a", "e", "5", "1", "0", "0", "a", "e", "5", "1", "0", "0", "a", "e", "5", "1", "0", "0", "a", "e", "5", "1", "0", "0", "a">>),
      CodeLine("", <<"B", "5", "A", "1", "C", "2", "D", "3", "E", "4", "F", "5">>),
      CodeLine("https", <<"A", "B", "C", "1", "2", "3", "X", "Y", "Z">>),
      CodeLine("https", <<>>) }

\* full_text: one line, or two different lines in either order
CascDocs ==
    { <<a>> : a \in CascLines } \cup
    { ls \in [1..MaxLines -> CascLines] : \A i, j \in 1..MaxLines : i # j => ls[i] # ls[j] }

CascInit ==
    /\ CascIdle
    /\ pc = "idle"
    /\ doc = NoDoc
    /\ srcIsPath = FALSE
    /\ OCR_AVAILABLE \in BOOLEAN
    /\ data = NewRecord
    /\ line_items = <<>>
    /\ raised = FALSE
    /\ via = ""
    /\ MoneyIdle /\ ValIdle /\ BatchIdle /\ CascRestIdle

\* the dictionary and the writers before a step
CascState == [data |-> kData, by |-> kBy]

\* a step of the cascade: from is the place before it, to the place after,
\* next_idx the pattern the loop goes on with, st what the step leaves
CascStep(from, to, next_idx, st) ==
    /\ kPc = from
    /\ kPc' = to
    /\ kIdx' = next_idx
    /\ kData' = st.data
    /\ kBy' = st.by
    /\ UNCHANGED <<kDoc, moneyVars, docVars, valVars, batchVars, cascRest>>

\* extract_invoice_data is called on a document with a text layer
CascCall ==
    /\ kPc = "idle"
    /\ tPc = "idle"
    /\ \E lines \in CascDocs : kDoc' = lines
    /\ kPc' = "cqt_match"
    /\ UNCHANGED <<kData, kBy, kIdx, moneyVars, docVars, valVars, batchVars, cascRest>>

CqtMatchStage ==
    CascStep("cqt_match", "security_patterns", 1, CqtMatch(CascState, kDoc))

SecurityPatternStep ==
    /\ kPc = "security_patterns"
    /\ \E r \in { SecurityPattern(CascState, kDoc, kIdx) } :
           IF r.exit = "break" \/ kIdx = Len(security_patterns)
           THEN CascStep("security_patterns", "footer", 0, r.st)
           ELSE CascStep("security_patterns", "security_patterns", kIdx + 1, r.st)

FooterStage ==
    CascStep("footer", "cqt_patterns", 1, FooterFallback(CascState, kDoc))

CqtPatternStep ==
    /\ kPc = "cqt_patterns"
    /\ \E r \in { CqtPattern(CascState, kDoc, kIdx) } :
           IF r.exit = "break" \/ kIdx = Len(cqt_patterns)
           THEN CascStep("cqt_patterns", "prox_patterns", 0, r.st)
           ELSE CascStep("cqt_patterns", "cqt_patterns", kIdx + 1, r.st)

ProxStage ==
    CascStep("prox_patterns", "multi_col_patterns", 1, ProxPatterns(CascState, kDoc))

\* the single-value patterns are tried when no column of a rate is set
MultiColStep ==
    /\ kPc = "multi_col_patterns"
    /\ \E st \in { MultiColPattern(CascState, kDoc, kIdx) } :
           IF kIdx < Len(multi_col_patterns)
           THEN CascStep("multi_col_patterns", "multi_col_patterns", kIdx + 1, st)
           ELSE IF AnyBucket(st.data, BucketKeys)
           THEN CascStep("multi_col_patterns", "summary_lines", 0, st)
           ELSE CascStep("multi_col_patterns", "simple_patterns", 1, st)

SimpleStep ==
    /\ kPc = "simple_patterns"
    /\ \E st \in { SimplePattern(CascState, kDoc, kIdx) } :
           IF kIdx < Len(simple_patterns)
           THEN CascStep("simple_patterns", "simple_patterns", kIdx + 1, st)
           ELSE CascStep("simple_patterns", "summary_lines", 0, st)

\* the block of the late lookup patterns is entered when the code is blank
SummaryStage ==
    /\ kPc = "summary_lines"
    /\ \E st \in { SummaryOverride(CascState, kDoc) } :
           IF Blank(st.data[LOOKUP])
           THEN CascStep("summary_lines", "code_match", 0, st)
           ELSE CascStep("summary_lines", "returned", 0, st)

CodeMatchStage ==
    CascStep("code_match", "pc_match", 0, CodeMatch(CascState, kDoc))

PcMatchStage ==
    CascStep("pc_match", "returned", 0, PcMatch(CascState, kDoc))

CascNext ==
    \/ CascCall \/ CqtMatchStage \/ SecurityPatternStep \/ FooterStage \/ CqtPatternStep
    \/ ProxStage \/ MultiColStep \/ SimpleStep \/ SummaryStage \/ CodeMatchStage
    \/ PcMatchStage

\* one run follows the tax code, another the other fields of the cascade
TaxCodeRun == kPc = "idle" /\ MstNext

CascadeSpec == CascInit /\ [][CascNext \/ TaxCodeRun]_vars

\* the rules that are written as an override of what is there
AuthoritativeRules == {"summary_lines"}

\* C20: in the cascade a field that is set is not given another value by a
\* later rule, unless the rule is the summary table: for the tax code (whose
\* final cleanup is no rule), the authority code, the lookup code and the tax
\* of each rate, the value of the first accepted rule stays.
C20_FirstMatchWins ==
    [][ /\ (tMst # <<>> /\ tMst' # tMst) => tBy' = "cleanup"
        /\ \A f \in CascadeFields :
              (~Blank(kData[f]) /\ kData'[f] # kData[f]) => kBy'[f] \in AuthoritativeRules ]_vars

(***************************************************************************)
(* The aggregation of the taxes of the line items, statement by statement. *)
(***************************************************************************)
MaxItems == 2

\* for r in [0, 5, 8, 10]
RateOrder == <<0, 5, 8, 10>>

\* the rows the extractor can return: amount and detected rate
ItemKinds ==
    { Item(N_COM, 1000000, <<"8">>), Item(N_COM, 500000, <<"8">>),
      Item(N_HOA, 500000, <<"1", "0">>), Item(N_PHI, 1050, <<"5">>),
      Item(N_PHI, 1000000, <<"0">>), Item(N_PHI, 1000000, <<>>) }

AggrItemLists == UNION { [1..n -> ItemKinds] : n \in 1..MaxItems }

\* the buckets and the total tax that the rules before the aggregation left
AggrEntries ==
    { [NewRecord EXCEPT ![PRE] = M(1000000), ![T5] = b5, ![T8] = b8, ![T10] = b10, ![TAX] = t] :
        b5 \in {<<>>, M(52)},
        b8 \in {<<>>, M(30000), M(80000), M(100000), M(200000)},
        b10 \in {<<>>, M(50000), M(100000)},
        t \in {<<>>, M(500), M(80000)} }

AggrInit ==
    /\ AggrIdle
    /\ MoneyIdle /\ DocIdle /\ ValIdle /\ BatchIdle /\ AggrRestIdle

\* if services: line_items = services, and the pass over the items that
\* fills tax_map and has_item_tax
AggrCall ==
    /\ aPc = "idle"
    /\ \E d \in AggrEntries, items \in AggrItemLists :
          /\ aEntry' = d
          /\ aData' = d
          /\ aItems' = items
          /\ aPc' = IF HasItemTax(items) THEN "fill" ELSE "done"
    /\ aIdx' = 1
    /\ UNCHANGED <<moneyVars, docVars, valVars, batchVars, aggrRest>>

\* one turn of the loop that fills the buckets
FillBucketStep ==
    /\ aPc = "fill"
    /\ aData' = FillBucket(aData, aItems, RateOrder[aIdx])
    /\ aIdx' = IF aIdx < Len(RateOrder) THEN aIdx + 1 ELSE aIdx
    /\ aPc' = IF aIdx < Len(RateOrder) THEN "fill" ELSE "total"
    /\ UNCHANGED <<aEntry, aItems>>
    /\ UNCHANGED <<moneyVars, docVars, valVars, batchVars, aggrRest>>

\* the total of the item taxes replaces a total tax that is missing or smaller
ItemTotalTax(d, items) ==
    The({ IF ParseMoneyIn(d[TAX]) = 0
             \/ (total_item_tax > ParseMoneyIn(d[TAX]) /\ total_item_tax > 1000)
          THEN [d EXCEPT ![TAX] = FormatMoneyIn(total_item_tax)]
          ELSE d :
          total_item_tax \in { TaxMap(items, 0) + TaxMap(items, 5) + TaxMap(items, 8)
                                 + TaxMap(items, 10) } })

TotalTaxStep ==
    /\ aPc = "total"
    /\ aData' = ItemTotalTax(aData, aItems)
    /\ aPc' = "done"
    /\ UNCHANGED <<aEntry, aItems, aIdx>>
    /\ UNCHANGED <<moneyVars, docVars, valVars, batchVars, aggrRest>>

AggrNext == AggrCall \/ FillBucketStep \/ TotalTaxStep

AggrSpec == AggrInit /\ [][AggrNext]_vars

\* the statements of the aggregation give what the block gives as a whole
AggrStepsAgree == aPc = "done" => aData = AggregateItemTax(aEntry, aItems)

\* the aggregate of rate r: the sum over the items that carry the rate r of
\* round(amount * r / 100)
ItemAggregate(items, r) ==
    LET with_rate == SelectSeq(items, LAMBDA it : ~Blank(it.amount) /\ it.tax_rate = NatStr(r))
        tax_val(i) == PyRound(ParseMoneyIn(with_rate[i].amount) * r, 100)
        sum[i \in 0..Len(with_rate)] == IF i = 0 THEN 0 ELSE sum[i - 1] + tax_val(i)
    IN sum[Len(with_rate)]

\* the rates whose turn of the loop is over
RatesDone == IF aPc = "fill" THEN { RateOrder[i] : i \in 1..(aIdx - 1) }
             ELSE IF aPc \in {"total", "done"} /\ HasItemTax(aItems) THEN Rates
             ELSE {}

\* C24: the aggregate of a rate is the sum over the items that carry the rate
\* of round(amount * rate / 100); a bucket is replaced only by its aggregate
\* and only when the value extracted before is zero or blank or differs from
\* the aggregate by more than 50% of the aggregate; a positive aggregate does
\* replace such a value, and a value within 50% of the aggregate is left as
\* it was
C24_AggregateOverride ==
    \A r \in RatesDone :
        \A agg \in { ItemAggregate(aItems, r) }, cur \in { ParseMoneyIn(aEntry[RateKey(r)]) } :
            /\ aData[RateKey(r)] # aEntry[RateKey(r)] =>
                  /\ aData[RateKey(r)] = FormatMoneyIn(agg)
                  /\ cur = 0 \/ 2 * Abs(cur - agg) > agg
            /\ (agg > 0 /\ (cur = 0 \/ 2 * Abs(cur - agg) > agg)) =>
                  aData[RateKey(r)] = FormatMoneyIn(agg)
            /\ (cur # 0 /\ 2 * Abs(cur - agg) <= agg) =>
                  aData[RateKey(r)] = aEntry[RateKey(r)]

\* the item at 8% aggregates to 80.000: the bucket of 100.000 is within 50%
\* of it and stays; the item at 10% aggregates to 50.000: the bucket of
\* 100.000 differs by more than 25.000 and is replaced
C24_Witness ==
    /\ aPc = "done"
    /\ aItems = <<Item(N_COM, 1000000, <<"8">>), Item(N_HOA, 500000, <<"1", "0">>)>>
    /\ aEntry[T8] = M(100000) /\ aData[T8] = M(100000)
    /\ aEntry[T10] = M(100000) /\ aData[T10] = M(50000)

(***************************************************************************)
(* _parse_vietnamese_words_to_number, token by token.  A word of the model  *)
(* stands for a word of the text: "mot", "bon", "nam", "sau", "bay",       *)
(* "tam", "chin", "muoi", "tram", "nghin", "trieu" and "ty" for a spelling *)
(* that the code accepts with its marks and without them; a word that is   *)
(* told apart by its marks is written as it is typed in Telex: "khoong"    *)
(* (0) and "lawm" (5 after the tens) are keys of digit_map with their      *)
(* marks only, and "moots", the form of 1 after the tens from 21 on, is no *)
(* key of digit_map.                                                       *)
(***************************************************************************)
MaxWords == 3

MaxThousands == 30

\* the words that re.sub removes before the text is split
FillerWords == {"dong", "chan", "le", "va"}

digit_map ==
    [w \in {"khoong", "mot", "hai", "ba", "bon", "nam", "lawm", "sau", "bay", "tam", "chin", "linh"}
       |-> CASE w = "khoong" -> 0 [] w = "mot" -> 1 [] w = "hai" -> 2 [] w = "ba" -> 3
             [] w = "bon" -> 4 [] w = "nam" -> 5 [] w = "lawm" -> 5 [] w = "sau" -> 6
             [] w = "bay" -> 7 [] w = "tam" -> 8 [] w = "chin" -> 9 [] w = "linh" -> 0]

TensWords == {"muoi"}

HundredWords == {"tram"}

Multiplier(w) ==
    CASE w = "nghin" -> 1000 [] w = "trieu" -> 1000000 [] w = "ty" -> 1000000000

MultiplierWords == {"nghin", "trieu", "ty"}

\* text.split() after the filler words are removed
SplitAmountWords(words) == SelectSeq(words, LAMBDA w : w \notin FillerWords)

(***************************************************************************)
(* The amounts written out in words.                                       *)
(***************************************************************************)
DigitWord(d) == <<"khoong", "mot", "hai", "ba", "bon", "nam", "sau", "bay", "tam", "chin">>[d + 1]

\* the unit after the word of the tens: 5 is "lawm", and 1 is "moots" from 21 on
UnitAfterTens(t, u) ==
    IF u = 0 THEN <<>>
    ELSE IF u = 5 THEN <<"lawm">>
    ELSE IF u = 1 /\ t >= 2 THEN <<"moots">>
    ELSE <<DigitWord(u)>>

\* the words of a group of three digits; first: no group stands before it
SpellGroup(g, first) ==
    LET h == g \div 100
        t == (g % 100) \div 10
        u == g % 10
    IN (IF h > 0 THEN <<DigitWord(h), "tram">>
        ELSE IF ~first THEN <<"khoong", "tram">>
        ELSE <<>>)
       \o (IF t = 0 THEN (IF u = 0 THEN <<>>
                          ELSE IF h > 0 \/ ~first THEN <<"linh", DigitWord(u)>>
                          ELSE <<DigitWord(u)>>)
           ELSE IF t = 1 THEN <<"muoi">> \o UnitAfterTens(t, u)
           ELSE <<DigitWord(t), "muoi">> \o UnitAfterTens(t, u))

\* the words of n, its groups in descending order
Spell(n) ==
    LET ty == n \div 1000000000
        tr == (n \div 1000000) % 1000
        ng == (n \div 1000) % 1000
        un == n % 1000
    IN (IF ty > 0 THEN SpellGroup(ty, TRUE) \o <<"ty">> ELSE <<>>)
       \o (IF tr > 0 THEN SpellGroup(tr, ty = 0) \o <<"trieu">> ELSE <<>>)
       \o (IF ng > 0 THEN SpellGroup(ng, ty = 0 /\ tr = 0) \o <<"nghin">> ELSE <<>>)
       \o (IF un > 0 THEN SpellGroup(un, ty = 0 /\ tr = 0 /\ ng = 0) ELSE <<>>)

\* the amounts of the model: the thousands up to MaxThousands and amounts
\* with hundreds, millions and a group that is skipped
WordAmounts ==
    { k * 1000 : k \in 1..MaxThousands }
      \cup {105000, 700000, 1200000, 1005000, 2000000000, 915}

SEVEN_HUNDRED_THOUSAND == <<"bay", "tram", "nghin">>

ONE_MILLION_TWO_HUNDRED_THOUSAND == <<"mot", "trieu", "hai", "tram", "nghin">>

FreeWords == {"mot", "bay", "muoi", "tram", "nghin", "trieu", "moots"}

WordInputs ==
    { Spell(n) : n \in WordAmounts }
      \cup { SEVEN_HUNDRED_THOUSAND, ONE_MILLION_TWO_HUNDRED_THOUSAND,
             SEVEN_HUNDRED_THOUSAND \o <<"chan">> }
      \cup UNION { [1..n -> FreeWords] : n \in 0..MaxWords }

WordsInit ==
    /\ WordsIdle
    /\ MoneyIdle /\ DocIdle /\ ValIdle /\ BatchIdle /\ WordsRestIdle

WordsFrame == UNCHANGED <<moneyVars, docVars, valVars, batchVars, wordsRest>>

\* tokens = text.split(); if not tokens: return 0
WordsCall ==
    /\ wPc = "idle"
    /\ \E words \in WordInputs :
          /\ wTokens' = SplitAmountWords(words)
          /\ wPc' = IF SplitAmountWords(words) = <<>> THEN "returned" ELSE "tokens"
    /\ wPos' = 1
    /\ wResult' = 0
    /\ wHundreds' = 0
    /\ wPending' = 0
    /\ WordsFrame

AtToken == wPc = "tokens" /\ wPos <= Len(wTokens)

\* if token in digit_map: pending = digit_map[token]
DigitToken ==
    /\ AtToken
    /\ wTokens[wPos] \in DOMAIN digit_map
    /\ wPending' = digit_map[wTokens[wPos]]
    /\ wPos' = wPos + 1
    /\ UNCHANGED <<wPc, wTokens, wResult, wHundreds>>
    /\ WordsFrame

TensToken ==
    /\ AtToken
    /\ wTokens[wPos] \in TensWords
    /\ wHundreds' = IF wPending = 0 THEN wHundreds + 10 ELSE wHundreds + wPending * 10
    /\ wPending' = 0
    /\ wPos' = wPos + 1
    /\ UNCHANGED <<wPc, wTokens, wResult>>
    /\ WordsFrame

HundredToken ==
    /\ AtToken
    /\ wTokens[wPos] \in HundredWords
    /\ wHundreds' = wHundreds + wPending * 100
    /\ wPending' = 0
    /\ wPos' = wPos + 1
    /\ UNCHANGED <<wPc, wTokens, wResult>>
    /\ WordsFrame

\* a multiplier without a group counts once; flush_group(multiplier)
MultiplierToken ==
    /\ AtToken
    /\ wTokens[wPos] \in MultiplierWords
    /\ wResult' = wResult
                    + (IF wHundreds = 0 /\ wPending = 0 THEN 1 ELSE wHundreds + wPending)
                        * Multiplier(wTokens[wPos])
    /\ wHundreds' = 0
    /\ wPending' = 0
    /\ wPos' = wPos + 1
    /\ UNCHANGED <<wPc, wTokens>>
    /\ WordsFrame

\* a token that no branch names changes nothing
OtherToken ==
    /\ AtToken
    /\ wTokens[wPos] \notin (DOMAIN digit_map) \cup TensWords \cup HundredWords \cup MultiplierWords
    /\ wPos' = wPos + 1
    /\ UNCHANGED <<wPc, wTokens, wResult, wHundreds, wPending>>
    /\ WordsFrame

\* flush_group(1); return result
FlushRemaining ==
    /\ wPc = "tokens"
    /\ wPos > Len(wTokens)
    /\ wResult' = wResult + wHundreds + wPending
    /\ wHundreds' = 0
    /\ wPending' = 0
    /\ wPc' = "returned"
    /\ UNCHANGED <<wTokens, wPos>>
    /\ WordsFrame

WordsNext ==
    \/ WordsCall \/ DigitToken \/ TensToken \/ HundredToken \/ MultiplierToken
    \/ OtherToken \/ FlushRemaining

WordsSpec == WordsInit /\ [][WordsNext]_vars

\* the two amounts that the specification spells out are parsed
C26_Examples ==
    wPc = "returned" =>
        /\ wTokens = SEVEN_HUNDRED_THOUSAND => wResult = 700000
        /\ wTokens = ONE_MILLION_TWO_HUNDRED_THOUSAND => wResult = 1200000

\* the result and the accumulators are never negative
C26_NonNegative == wResult >= 0 /\ wHundreds >= 0 /\ wPending >= 0

\* C26: the parser of amounts in words accumulates token by token; for an
\* amount written out in words with its groups in descending order it returns
\* the integer the words denote, 700000 and 1200000 for the two examples of
\* the specification, and its result is never negative
C26_WordsDenoteAmount ==
    /\ C26_NonNegative
    /\ C26_Examples
    /\ wPc = "returned" => \A n \in WordAmounts : wTokens = Spell(n) => wResult = n

(***************************************************************************)
(* extract_services_from_text on a text of several lines: the name of an   *)
(* item takes lines from before and after its own line.  The texts are     *)
(* written without diacritics; MarkedWords names the words that carry a    *)
(* Vietnamese mark in the document.                                        *)
(***************************************************************************)
MaxTextLines == 3

\* the words of the model that are written with a Vietnamese mark
MarkedWords ==
    { <<"c", "a">>, <<"c", "o", "m">>, <<"c", "o", "n", "g">>, <<"d", "a", "u">>,
      <<"d", "e", "n">>, <<"h", "a", "n", "g">>, <<"p", "h", "a", "n">>, <<"p", "h", "u">>,
      <<"t", "h", "e", "m">>, <<"t", "i", "e", "n">>, <<"t", "u">>, <<"x", "u", "y", "e", "n">> }

\* ['cong tien', 'tong cong', 'thue', 'thanh tien']
MergeStopKeywords ==
    { <<"c", "o", "n", "g", " ", "t", "i", "e", "n">>,
      <<"t", "o", "n", "g", " ", "c", "o", "n", "g">>, <<"t", "h", "u", "e">>,
      <<"t", "h", "a", "n", "h", " ", "t", "i", "e", "n">> }

\* (ngay|tu|den|thang|nam)
DateWords ==
    { <<"n", "g", "a", "y">>, <<"t", "u">>, <<"d", "e", "n">>, <<"t", "h", "a", "n", "g">>,
      <<"n", "a", "m">> }

\* re.search(r'[a-zA-Z]', s)
HasAsciiLetter(s) == \E i \in 1..Len(s) : s[i] \in UpperAZ \cup LowerAZ

\* re.search(r'[...the letters with a mark...]', s, re.IGNORECASE)
HasMark(s) ==
    \E i \in 1..Len(SplitWords(s)) :
        ToLower(SelectSeq(SplitWords(s)[i], LAMBDA c : c \notin {"(", ")", ":", ",", "."})) \in MarkedWords

HasStopKeyword(s) == \E kw \in MergeStopKeywords : IsSubstr(kw, ToLower(s))

\* the end of the match of \d{1,2}[/-]\d{1,2}[/-]\d{2,4} that starts at s[i],
\* 0 when there is none; with blanks, of \d{1,2}\s*[/-]\s*\d{1,2}\s*[/-]\s*\d{2,4}
DateEnd(s, i, blanks) ==
    LET gap(k) == IF blanks THEN RunLen(s, k, {" "}) ELSE 0
        a == RunLen(s, i, Digits)
        p1 == i + a + gap(i + a)
        q1 == p1 + 1 + gap(p1 + 1)
        b == RunLen(s, q1, Digits)
        p2 == q1 + b + gap(q1 + b)
        q2 == p2 + 1 + gap(p2 + 1)
        c == RunLen(s, q2, Digits)
    IN IF /\ a \in 1..2 /\ p1 <= Len(s) /\ s[p1] \in {"/", "-"}
          /\ b \in 1..2 /\ p2 <= Len(s) /\ s[p2] \in {"/", "-"}
          /\ c >= 2
       THEN q2 + (IF c > 4 THEN 4 ELSE c) - 1
       ELSE 0

\* re.sub(<the date pattern>, '', s) from s[i] on
RECURSIVE RemoveDates(_, _, _)
RemoveDates(s, i, blanks) ==
    IF i > Len(s) THEN <<>>
    ELSE CHOOSE r \in { IF e > 0 THEN RemoveDates(s, e + 1, blanks)
                        ELSE <<s[i]>> \o RemoveDates(s, i + 1, blanks) :
                        e \in { DateEnd(s, i, blanks) } } : TRUE

\* re.findall(r'\d{1,3}(?:[.,]\d{3})+(?:[.,]\d{2})?', s) is not empty
HasPriceNumber(s) ==
    \E i \in 1..(Len(s) - 4) :
        /\ s[i] \in Digits /\ s[i + 1] \in {".", ","}
        /\ \A k \in (i + 2)..(i + 4) : s[k] \in Digits

\* re.findall(r'\b\d{4,}\b', s): the starts of the matches
LongNumbers(s) ==
    { i \in 1..Len(s) :
        /\ s[i] \in Digits
        /\ (i = 1 \/ s[i - 1] \notin WordChars)
        /\ \E n \in { RunLen(s, i, Digits) } :
              n >= 4 /\ (i + n > Len(s) \/ s[i + n] \notin WordChars) }

\* check_name = re.sub(r'^\d+\s+', '', name_part).strip()
CheckName(name_part) ==
    CHOOSE r \in { IF n >= 1 /\ RunLen(name_part, n + 1, {" "}) >= 1
                   THEN Strip(Drop(name_part, n + RunLen(name_part, n + 1, {" "})))
                   ELSE Strip(name_part) :
                   n \in { RunLen(name_part, 1, Digits) } } : TRUE

\* needs_prev
NeedsPrev(name_part) ==
    \E check_name \in { CheckName(name_part) } :
        \/ Len(check_name) < 5
        \/ check_name[1] \in LowerAZ
        \/ check_name[1] \in {"(", ")"}
        \/ Contains(SubSeq(check_name, 1, 10), ")")

\* prev_line as the tests after the STT rule see it: a line that starts
\* with a sequence number stands for the rest of the line
PrevLine(stripped) ==
    CHOOSE r \in { IF m.ok THEN Strip(Drop(stripped, m.stt_end)) ELSE stripped :
                   m \in { MatchStt(stripped) } } : TRUE

\* the break statements of the loop over the lines before; last_collected is
\* prev_parts[0], <<>> while prev_parts is empty
PrevBreaks(stripped, last_collected) ==
    \/ Len(stripped) < 2
    \/ (MatchStt(stripped).ok /\ HasDigit(PrevLine(stripped)))
    \/ \E prev_line \in { PrevLine(stripped) } :
          \/ is_junk_text(prev_line)
          \/ \E temp_line \in { RemoveDates(prev_line, 1, FALSE) } :
                HasPriceNumber(temp_line) \/ Cardinality(LongNumbers(temp_line)) > 1
          \/ HasStopKeyword(prev_line)
          \/ (prev_line[Len(prev_line)] = ")" /\ HasAsciiLetter(prev_line) /\ ~Contains(prev_line, "("))
          \/ /\ last_collected # <<>>
             /\ last_collected[1] \in UpperAZ /\ last_collected[1] # "("
             /\ prev_line[1] = "(" /\ HasAsciiLetter(prev_line)

\* for offset in range(1, 3): the lines before lines[line_idx] that are taken, as
\* indices of lines in the order of prev_parts
RECURSIVE PrevParts(_, _, _, _)
PrevParts(lines, line_idx, offset, prev_parts) ==
    IF offset > 2 \/ line_idx - offset < 1 THEN prev_parts
    ELSE IF PrevBreaks(Strip(lines[line_idx - offset]),
                       IF prev_parts = <<>> THEN <<>> ELSE PrevLine(Strip(lines[prev_parts[1]])))
    THEN prev_parts
    ELSE PrevParts(lines, line_idx, offset + 1, <<line_idx - offset>> \o prev_parts)

\* next_line_is_suffix
NextLineIsSuffix(lines, line_idx) ==
    /\ line_idx + 1 <= Len(lines)
    /\ \E peek_line \in { Strip(lines[line_idx + 1]) } :
          /\ peek_line # <<>> /\ peek_line[1] = "("
          /\ \/ HasAsciiLetter(peek_line)
             \/ \E w \in DateWords : IsSubstr(w, ToLower(peek_line))

\* has_unclosed_paren
HasUnclosedParen(name_part) ==
    Cardinality({ i \in 1..Len(name_part) : name_part[i] = "(" })
        > Cardinality({ i \in 1..Len(name_part) : name_part[i] = ")" })

\* needs_next; last_char in '(-' holds for the empty last_char of an empty name
NeedsNext(name_part, lines, line_idx) ==
    \/ name_part = <<>>
    \/ name_part[Len(name_part)] \in {"(", "-"}
    \/ HasSuffix(<<"(">>, RStrip(name_part))
    \/ HasUnclosedParen(name_part)
    \/ NextLineIsSuffix(lines, line_idx)

\* the break statements of the loop over the lines after
NextBreaks(next_line, has_unclosed_paren) ==
    \/ Len(next_line) < 2
    \/ MatchStt(next_line).ok
    \/ is_junk_text(next_line)
    \/ Len(NumBlocks(RemoveDates(next_line, 1, TRUE), 1)) > 1
    \/ HasStopKeyword(next_line)
    \/ /\ next_line[1] \in UpperAZ
       /\ ~(has_unclosed_paren /\ Contains(next_line, ")"))
       /\ HasMark(next_line)

\* for offset in range(1, 4): the lines after lines[line_idx] that are taken
RECURSIVE NextParts(_, _, _, _, _)
NextParts(lines, line_idx, offset, has_unclosed_paren, next_parts) ==
    IF offset > 3 \/ line_idx + offset > Len(lines) THEN next_parts
    ELSE IF NextBreaks(Strip(lines[line_idx + offset]), has_unclosed_paren) THEN next_parts
    ELSE NextParts(lines, line_idx, offset + 1, has_unclosed_paren, next_parts \o <<line_idx + offset>>)

\* if prev_parts: name_part = " ".join(prev_parts) + " " + name_part
MergePrev(lines, line_idx, name_part) ==
    The({ [name_part |-> IF prev = <<>> THEN name_part
                         ELSE JoinParts([k \in 1..Len(prev) |-> PrevLine(Strip(lines[prev[k]]))])
                                  \o <<" ">> \o name_part,
           prev |-> prev] :
          prev \in { IF NeedsPrev(name_part) THEN PrevParts(lines, line_idx, 1, <<>>) ELSE <<>> } })

\* if next_parts: name_part = name_part + " " + " ".join(next_parts)
MergeNext(lines, line_idx, name_part) ==
    The({ [name_part |-> IF next = <<>> THEN name_part
                         ELSE name_part \o <<" ">>
                                  \o JoinParts([k \in 1..Len(next) |-> Strip(lines[next[k]])]),
           next |-> next] :
          next \in { IF NeedsNext(name_part, lines, line_idx)
                     THEN NextParts(lines, line_idx, 1, HasUnclosedParen(name_part), <<>>)
                     ELSE <<>> } })

\* name_part after the two merges and the strip(), with the lines of the
\* text each merge took
MergeLines(lines, line_idx, name_part) ==
    The({ [name_part |-> Strip(mn.name_part), prev |-> mp.prev, next |-> mn.next] :
          mn \in { MergeNext(lines, line_idx, mp.name_part) : mp \in { MergePrev(lines, line_idx, name_part) } },
          mp \in { MergePrev(lines, line_idx, name_part) } })

NoService == [services |-> <<>>, used |-> <<>>]

\* one turn of the loop over lines: the item appended to services, and as
\* used the lines of the text its name was written from
LineServices(lines, line_idx, unit) ==
    The({ IF ~sp.ok THEN NoService
          ELSE The({ IF IsJunkName(NameTail(mg.name_part)) THEN NoService
                     ELSE The({ [services |-> << [name |-> NameTail(mg.name_part),
                                                  qty |-> format_price_value(n.qty),
                                                  unit_price |-> format_price_value(n.unit_price),
                                                  amount |-> format_price_value(n.amount),
                                                  tax_rate |-> sp.tax_rate] >>,
                                 used |-> << [own |-> line_idx, prev |-> mg.prev, next |-> mg.next] >>] :
                                n \in { FixSmallAmount(PickNumbers(sp.nums)) } }) :
                     mg \in { MergeLines(lines, line_idx, NameHead(sp.name_part, sp.stt, unit)) } }) :
          sp \in { LineSplit(Strip(lines[line_idx])) } })

(***************************************************************************)
(* The texts of the model: up to MaxTextLines lines out of item lines,     *)
(* lines of description, a line of totals and the empty line.              *)
(***************************************************************************)
TextLines ==
    {
      <<"1", " ", "D", "a", "u", " ", "p", "h", "u", " ", "T", "u", " ", "X", "u", "y", "e", "n", " ", "P", "h", "a", "n", " ", "1", " ", "5", "0", ".", "0", "0", "0", " ", "5", "0", ".", "0", "0", "0">>,
      <<"2", " ", "c", "o", "m", " ", "P", "h", "a", "n", " ", "1", " ", "1", "0", ".", "0", "0", "0", " ", "1", "0", ".", "0", "0", "0">>,
      <<"3", " ", "C", "a", " ", "k", "h", "o", " ", "(", "b", "r", "a", "i", "s", "e", "d", " ", "f", "i", "s", "h", " ", "P", "h", "a", "n", " ", "1", " ", "8", "0", ".", "0", "0", "0", " ", "8", "0", ".", "0", "0", "0">>,
      <<"(", "S", "i", "c", "h", "u", "a", "n", " ", "t", "o", "f", "u", ")">>,
      <<"w", "i", "t", "h", " ", "c", "h", "i", "l", "i", ")">>,
      <<"T", "h", "e", "m", " ", "c", "o", "m">>,
      <<"(", "t", "u", " ", "0", "1", "/", "0", "2", "/", "2", "0", "2", "4", " ", "d", "e", "n", " ", "0", "5", "/", "0", "2", "/", "2", "0", "2", "4", ")">>,
      <<"C", "o", "n", "g", " ", "t", "i", "e", "n", " ", "h", "a", "n", "g", ":", " ", "6", "0", ".", "0", "0", "0">>,
      <<>> }

MergeTexts == UNION { [1..n -> TextLines] : n \in 1..MaxTextLines }

MergeInit ==
    /\ MergeIdle
    /\ pc = "idle"
    /\ doc = NoDoc
    /\ srcIsPath = FALSE
    /\ OCR_AVAILABLE = TRUE
    /\ data = NewRecord
    /\ line_items = <<>>
    /\ raised = FALSE
    /\ via = ""
    /\ MoneyIdle /\ ValIdle /\ BatchIdle /\ MergeRestIdle

\* the caller hands full_text to extract_services_from_text
ReadText ==
    /\ nPc = "idle"
    /\ \E ls \in MergeTexts : nText' = JoinLines(ls)
    /\ nPc' = "called"
    /\ UNCHANGED <<nLines, nIdx, nItems, nUsed>>
    /\ UNCHANGED <<moneyVars, docVars, valVars, batchVars, mergeRest>>

\* services = []; lines = full_text.split('\n')
SplitText ==
    /\ nPc = "called"
    /\ nLines' = SplitLines(nText)
    /\ nIdx' = 1
    /\ nItems' = <<>>
    /\ nUsed' = <<>>
    /\ nPc' = "loop"
    /\ UNCHANGED nText
    /\ UNCHANGED <<moneyVars, docVars, valVars, batchVars, mergeRest>>

\* for line_idx, line in enumerate(lines): one turn of the loop
LineTurn ==
    /\ nPc = "loop"
    /\ nIdx <= Len(nLines)
    /\ \E unit \in UnitChoices(Strip(nLines[nIdx])) :
        \E r \in { LineServices(nLines, nIdx, unit) } :
            /\ nItems' = nItems \o r.services
            /\ nUsed' = nUsed \o r.used
    /\ nIdx' = nIdx + 1
    /\ UNCHANGED <<nPc, nText, nLines>>
    /\ UNCHANGED <<moneyVars, docVars, valVars, batchVars, mergeRest>>

\* return services
ReturnServices ==
    /\ nPc = "loop"
    /\ nIdx > Len(nLines)
    /\ nPc' = "returned"
    /\ UNCHANGED <<nText, nLines, nIdx, nItems, nUsed>>
    /\ UNCHANGED <<moneyVars, docVars, valVars, batchVars, mergeRest>>

MergeStep == ReadText \/ SplitText \/ LineTurn \/ ReturnServices

MergeSpec == MergeInit /\ [][MergeStep]_vars

\* the lines of the text the name of item k was written from
LinesOfItem(k) ==
    {nUsed[k].own} \cup { nUsed[k].prev[h] : h \in 1..Len(nUsed[k].prev) }
                   \cup { nUsed[k].next[h] : h \in 1..Len(nUsed[k].next) }

\* a line that produced an item is never merged into the name of another
\* item: the loops stop at a line that starts with a sequence number and
\* holds a number after it
ItemLineNeverMerged ==
    \A j, k \in 1..Len(nUsed) : j # k => nUsed[j].own \notin LinesOfItem(k)

\* C29: in extract_services_from_text no line of the text contributes to the
\* names of two different items: a line folded in as the suffix of one item
\* is never folded in as the prefix of a later item, and a line that produced
\* an item is never merged into the name of another item.
C29_NoLineInTwoNames ==
    \A j, k \in 1..Len(nUsed) : j # k => LinesOfItem(j) \cap LinesOfItem(k) = {}

====
